---- MODULE Spec2Model ----
(***************************************************************************)
(* Session capture runtime of crawler/session_capture.py:                  *)
(*   - the storage-state writer (_canonicalize_output_path,                *)
(*     _validate_output_target, _write_storage_state),                     *)
(*   - the interactive capture flow (capture_session_async and             *)
(*     _execute_capture_flow),                                             *)
(*   - the CDP broker (list_cdp_sessions_async,                            *)
(*     export_cdp_storage_state_async).                                    *)
(*                                                                         *)
(* Strings are sequences of characters, file contents are sequences of     *)
(* JSON tokens, paths are sequences of segments.  Symbolic links are not   *)
(* modelled: Path.resolve only normalises "." and "..".                    *)
(***************************************************************************)
EXTENDS Integers, Sequences, FiniteSets, TLC

(***************************************************************************)
(* Bounds of the model.                                                    *)
(***************************************************************************)
MaxStrLen == 1
MaxContexts == 2
MaxPages == 2
MaxClock == 3

(***************************************************************************)
(* JSON values, as json.loads produces them.                               *)
(***************************************************************************)
DQ == "DQ"
BS == "BS"
SUR == "SUR"
Chars == {"a", DQ, BS, SUR}

RECURSIVE SeqsUpTo(_, _)
SeqsUpTo(S, n) ==
  IF n = 0 THEN {<<>>}
  ELSE LET prev == SeqsUpTo(S, n - 1)
       IN prev \cup {Append(s, x) : s \in {q \in prev : Len(q) = n - 1}, x \in S}

Strs == SeqsUpTo(Chars, MaxStrLen)

JNull == [t |-> "null"]
JBool(b) == [t |-> "bool", v |-> b]
JNum(n) == [t |-> "num", v |-> n]
JStr(s) == [t |-> "str", v |-> s]
JArr(items) == [t |-> "arr", v |-> items]
JObj(members) == [t |-> "obj", v |-> members]
Member(k, v) == [k |-> k, v |-> v]

Leaves == {JNull, JBool(TRUE), JBool(FALSE), JNum(0), JNum(1)} \cup {JStr(s) : s \in Strs}
Inner == Leaves \cup {JArr(<<>>), JArr(<<JNull, JNum(1)>>), JObj(<<>>),
                      JObj(<<Member(<<"a">>, JArr(<<JStr(<<DQ>>)>>))>>)}
Keys == {<<c>> : c \in Chars \ {SUR}} \cup {<<>>}
Objects == {JObj(<<>>)}
           \cup {JObj(<<Member(k, v)>>) : k \in Keys, v \in Inner}
           \cup {JObj(<<Member(<<"a">>, v), Member(<<DQ>>, JArr(<<>>))>>) : v \in Leaves}
NonObjects == {JNull, JNum(1), JStr(<<"a">>), JArr(<<>>), JArr(<<JObj(<<>>)>>)}
Payloads == Objects \cup NonObjects

(***************************************************************************)
(* json.dumps(payload, indent=2, ensure_ascii=False)                       *)
(***************************************************************************)
RECURSIVE EscapeChars(_)
EscapeChars(s) ==
  IF s = <<>> THEN <<>>
  ELSE (IF Head(s) \in {DQ, BS} THEN <<BS, Head(s)>> ELSE <<Head(s)>>)
       \o EscapeChars(Tail(s))

DumpsStr(s) == <<DQ>> \o EscapeChars(s) \o <<DQ>>

NumTok(n) == IF n = 0 THEN "0" ELSE "1"

RECURSIVE Dumps(_)
RECURSIVE DumpsItems(_)
RECURSIVE DumpsMembers(_)
DumpsItems(items) ==
  IF Len(items) = 1 THEN Dumps(items[1])
  ELSE Dumps(items[1]) \o <<",", "ws">> \o DumpsItems(Tail(items))

DumpsMembers(ms) ==
  LET one == DumpsStr(ms[1].k) \o <<":", "ws">> \o Dumps(ms[1].v)
  IN IF Len(ms) = 1 THEN one
     ELSE one \o <<",", "ws">> \o DumpsMembers(Tail(ms))

Dumps(v) ==
  CASE v.t = "null" -> <<"null">>
    [] v.t = "bool" -> IF v.v THEN <<"true">> ELSE <<"false">>
    [] v.t = "num" -> <<NumTok(v.v)>>
    [] v.t = "str" -> DumpsStr(v.v)
    [] v.t = "arr" -> IF v.v = <<>> THEN <<"[", "]">>
                      ELSE <<"[", "ws">> \o DumpsItems(v.v) \o <<"ws", "]">>
    [] v.t = "obj" -> IF v.v = <<>> THEN <<"{", "}">>
                      ELSE <<"{", "ws">> \o DumpsMembers(v.v) \o <<"ws", "}">>

(***************************************************************************)
(* json.loads(text): a recursive-descent parser over the tokens.  Every    *)
(* parse step returns [ok, val, next].                                     *)
(***************************************************************************)
ParseFail == [ok |-> FALSE, val |-> JNull, next |-> 0]
Parsed(v, n) == [ok |-> TRUE, val |-> v, next |-> n]

RECURSIVE SkipWs(_, _)
SkipWs(t, i) == IF i <= Len(t) /\ t[i] = "ws" THEN SkipWs(t, i + 1) ELSE i

RECURSIVE ParseChars(_, _, _)
ParseChars(t, i, acc) ==
  IF i > Len(t) THEN ParseFail
  ELSE IF t[i] = DQ THEN Parsed(JStr(acc), i + 1)
  ELSE IF t[i] = BS
       THEN IF i + 1 <= Len(t) /\ t[i + 1] \in {DQ, BS}
            THEN ParseChars(t, i + 2, Append(acc, t[i + 1]))
            ELSE ParseFail
  ELSE IF t[i] \in Chars THEN ParseChars(t, i + 1, Append(acc, t[i]))
  ELSE ParseFail

RECURSIVE ParseValue(_, _)
RECURSIVE ParseItems(_, _, _)
RECURSIVE ParseMembers(_, _, _)
ParseItems(t, i, acc) ==
  LET r == ParseValue(t, SkipWs(t, i))
  IN IF ~r.ok THEN ParseFail
     ELSE LET j == SkipWs(t, r.next)
          IN IF j > Len(t) THEN ParseFail
             ELSE IF t[j] = "," THEN ParseItems(t, j + 1, Append(acc, r.val))
             ELSE IF t[j] = "]" THEN Parsed(JArr(Append(acc, r.val)), j + 1)
             ELSE ParseFail

ParseMembers(t, i, acc) ==
  LET ki == SkipWs(t, i)
  IN IF ki > Len(t) \/ t[ki] # DQ THEN ParseFail
     ELSE LET k == ParseChars(t, ki + 1, <<>>)
          IN IF ~k.ok THEN ParseFail
             ELSE LET c == SkipWs(t, k.next)
                  IN IF c > Len(t) \/ t[c] # ":" THEN ParseFail
                     ELSE LET r == ParseValue(t, SkipWs(t, c + 1))
                          IN IF ~r.ok THEN ParseFail
                             ELSE LET j == SkipWs(t, r.next)
                                      ms == Append(acc, Member(k.val.v, r.val))
                                  IN IF j > Len(t) THEN ParseFail
                                     ELSE IF t[j] = "," THEN ParseMembers(t, j + 1, ms)
                                     ELSE IF t[j] = "}" THEN Parsed(JObj(ms), j + 1)
                                     ELSE ParseFail

ParseValue(t, i) ==
  IF i > Len(t) THEN ParseFail
  ELSE CASE t[i] = "null" -> Parsed(JNull, i + 1)
         [] t[i] = "true" -> Parsed(JBool(TRUE), i + 1)
         [] t[i] = "false" -> Parsed(JBool(FALSE), i + 1)
         [] t[i] = "0" -> Parsed(JNum(0), i + 1)
         [] t[i] = "1" -> Parsed(JNum(1), i + 1)
         [] t[i] = DQ -> ParseChars(t, i + 1, <<>>)
         [] t[i] = "[" ->
              LET j == SkipWs(t, i + 1)
              IN IF j <= Len(t) /\ t[j] = "]" THEN Parsed(JArr(<<>>), j + 1)
                 ELSE ParseItems(t, j, <<>>)
         [] t[i] = "{" ->
              LET j == SkipWs(t, i + 1)
              IN IF j <= Len(t) /\ t[j] = "}" THEN Parsed(JObj(<<>>), j + 1)
                 ELSE ParseMembers(t, j, <<>>)
         [] OTHER -> ParseFail

Loads(t) ==
  LET r == ParseValue(t, SkipWs(t, 1))
  IN IF r.ok /\ SkipWs(t, r.next) = Len(t) + 1 THEN r ELSE ParseFail

(***************************************************************************)
(* str.encode("utf-8"): lone surrogates cannot be encoded.                 *)
(***************************************************************************)
Utf8Encodable(t) == \A i \in 1..Len(t) : t[i] # SUR

(***************************************************************************)
(* Optional values: None is the empty tuple, a present value x is <<x>>.   *)
(***************************************************************************)
None == <<>>
Some(x) == <<x>>

(***************************************************************************)
(* Paths and the file system.  A path is its sequence of segments, the     *)
(* first being "/" for an absolute path and "~" for a home-relative one.   *)
(***************************************************************************)
Root == <<"/">>
Cwd == <<"/", "w">>
Home == <<"/", "h">>

EmptyPath == <<>>
BlankPath == <<" ">>
PathInputs == {EmptyPath, BlankPath,
               <<"out">>, <<"/", "w", "d", "..", ".", "out">>, <<"~", "out">>,
               <<"new", "out">>, <<"d">>, <<"out", "x">>}

IsBlank(s) == \A i \in 1..Len(s) : s[i] = " "

RECURSIVE Normalize(_, _)
Normalize(segs, acc) ==
  IF segs = <<>> THEN acc
  ELSE IF Head(segs) = "." THEN Normalize(Tail(segs), acc)
  ELSE IF Head(segs) = ".."
       THEN Normalize(Tail(segs),
                      IF Len(acc) > 1 THEN SubSeq(acc, 1, Len(acc) - 1) ELSE acc)
  ELSE Normalize(Tail(segs), Append(acc, Head(segs)))

IsAbsolute(p) == p # <<>> /\ p[1] = "/"

_canonicalize_output_path(path_value) ==
  LET expanded == IF path_value # <<>> /\ path_value[1] = "~"
                  THEN Home \o Tail(path_value) ELSE path_value
      abs == IF IsAbsolute(expanded) THEN expanded ELSE Cwd \o expanded
  IN Normalize(Tail(abs), Root)

Parent(p) == SubSeq(p, 1, Len(p) - 1)

OutFile == <<"/", "w", "out">>
FsPaths == {Root, Cwd, Home, OutFile, <<"/", "w", "d">>, <<"/", "w", "new">>,
            <<"/", "w", "new", "out">>, <<"/", "h", "out">>, <<"/", "w", "out", "x">>}

Absent == [kind |-> "absent", content |-> <<>>]
Dir == [kind |-> "dir", content |-> <<>>]
File(c) == [kind |-> "file", content |-> c]

OldContent == <<"{", "ws", DQ, "a", DQ, ":", "ws", "0", "ws", "}">>

KindOf(fsv, p) == IF p \in DOMAIN fsv THEN fsv[p].kind ELSE "absent"
Exists(fsv, p) == KindOf(fsv, p) # "absent"
IsDir(fsv, p) == KindOf(fsv, p) = "dir"

InitialFs(outNode) ==
  [p \in FsPaths |->
     IF p \in {Root, Cwd, Home, <<"/", "w", "d">>} THEN Dir
     ELSE IF p = OutFile THEN outNode
     ELSE Absent]

InitialFsSet == {InitialFs(n) : n \in {Absent, File(OldContent)}}

(***************************************************************************)
(* Exceptions.  SessionCaptureConfigError is a SessionCaptureError, which  *)
(* is a ValueError; the other classes are raised by the runtime, the       *)
(* standard library or the browser driver.                                 *)
(***************************************************************************)
ConfigError == "SessionCaptureConfigError"
RuntimeError == "SessionCaptureError"
DriverError == "playwright.Error"
RegexError == "re.error"
OsError == "OSError"
EncodeError == "UnicodeEncodeError"
DecodeError == "JSONDecodeError"
CallbackError == "CallbackError"

Exc(cls, msg) == [cls |-> cls, msg |-> msg, range |-> <<>>]
ExcRange(cls, msg, lo, hi) == [cls |-> cls, msg |-> msg, range |-> <<lo, hi>>]

_validate_output_target(fsv, path, overwrite) ==
  IF Exists(fsv, path) /\ ~overwrite THEN Some(Exc(ConfigError, "already exists"))
  ELSE IF Exists(fsv, path) /\ IsDir(fsv, path) THEN Some(Exc(ConfigError, "is a directory"))
  ELSE None

(***************************************************************************)
(* path.parent.mkdir(parents=True, exist_ok=True)                          *)
(***************************************************************************)
Ancestors(p) == {SubSeq(p, 1, n) : n \in 1..(Len(p) - 1)}

MkdirParents(fsv, path) ==
  IF \E a \in Ancestors(path) : KindOf(fsv, a) = "file"
  THEN [fs |-> fsv, err |-> Some(Exc(OsError, "mkdir")), made |-> FALSE]
  ELSE [fs |-> [p \in DOMAIN fsv |-> IF p \in Ancestors(path) THEN Dir ELSE fsv[p]],
        err |-> None,
        made |-> \E a \in Ancestors(path) : KindOf(fsv, a) = "absent"]

(***************************************************************************)
(* _write_storage_state(path, payload): the file system after the call,    *)
(* the exception it raises (if any) and what it did to the file system.    *)
(***************************************************************************)
IsDict(payload) == payload.t = "obj"

_write_storage_state(fsv, path, payload) ==
  IF ~IsDict(payload)
  THEN [fs |-> fsv, err |-> Some(Exc(RuntimeError, "must be a JSON object")), effects |-> {}]
  ELSE
    LET mk == MkdirParents(fsv, path)
        mkEff == IF mk.made THEN {"mkdir"} ELSE {}
        text == Dumps(payload)
    IN IF mk.err # None THEN [fs |-> fsv, err |-> mk.err, effects |-> {}]
       ELSE IF IsDir(mk.fs, path)
       THEN [fs |-> mk.fs, err |-> Some(Exc(OsError, "open")), effects |-> mkEff]
       ELSE IF ~Utf8Encodable(text)
       THEN [fs |-> [mk.fs EXCEPT ![path] = File(<<>>)],
             err |-> Some(Exc(EncodeError, "surrogates not allowed")),
             effects |-> mkEff \cup {"write"}]
       ELSE
         LET written == [mk.fs EXCEPT ![path] = File(text)]
             parsed == Loads(written[path].content)
         IN [fs |-> written,
             err |-> IF ~parsed.ok THEN Some(Exc(DecodeError, "reparse"))
                     ELSE IF ~IsDict(parsed.val)
                     THEN Some(Exc(RuntimeError, "Written storage_state is not a JSON object"))
                     ELSE None,
             effects |-> mkEff \cup {"write"}]

(***************************************************************************)
(* URLs and completion patterns.  The regular expressions of the model are *)
(* literals with the wildcard "."; an unclosed "(" does not compile.       *)
(***************************************************************************)
BlankUrl == <<"b">>
LoginUrl == <<"l">>
DashUrl == <<"d", "x">>
Urls == {BlankUrl, LoginUrl, DashUrl}

Patterns == {<<>>, <<" ">>, <<"(">>, <<"x">>, <<"d", ".">>}

Compiles(p) == \A i \in 1..Len(p) : p[i] # "("

Search(p, u) ==
  \E off \in 0..(Len(u) - Len(p)) :
     \A i \in 1..Len(p) : p[i] = "." \/ p[i] = u[off + i]

Timeouts == 0..(MaxClock - 1)
Polls == {0, 1}
ConfirmKinds == {"none", "sync", "coroutine", "future"}
CapturedPayloads == {JObj(<<Member(<<"a">>, JArr(<<>>))>>),
                     JObj(<<Member(<<"a">>, JStr(<<SUR>>))>>),
                     JArr(<<>>), JNull}

(***************************************************************************)
(* State.                                                                  *)
(***************************************************************************)
VARIABLES
  cli,       \* the capture command line: its arguments, position and exit code
  crawl,     \* a crawl_pages_async batch: the semaphore and its tasks
  fs,        \* the file system: FsPaths -> node
  pc,        \* position of the running call
  call,      \* the running call and its arguments
  output,    \* canonical output path of the call (Optional)
  pw,        \* the async_playwright() context manager: none, entered, exited
  browser,   \* the browser object of the call: none, open, closed
  remote,    \* contexts of the browser reached over CDP
  page,      \* the page of the interactive flow
  clock,     \* monotonic()
  started,   \* the flow's local `started`
  flow,      \* locals and return value of the flow
  exc,       \* exception in flight inside the flow (Optional)
  result,    \* what the call returned or raised
  sessions,  \* list built by list_cdp_sessions_async
  hist       \* history: what the call did to the browser and the file system

vars == <<cli, crawl, fs, pc, call, output, pw, browser, remote, page, clock, started,
          flow, exc, result, sessions, hist>>

NoResult == [kind |-> "none", exc |-> None, value |-> None]
Raised(e) == [kind |-> "raised", exc |-> Some(e), value |-> None]
Returned(v) == [kind |-> "returned", exc |-> None, value |-> Some(v)]

CaptureResult(status, message, path, final_url) ==
  [status |-> status, message |-> message,
   storage_state_path |-> path, final_url |-> final_url]

(* no command line, no batch crawl *)
NoCli == [pc |-> "none"]
NoCrawl == [pc |-> "none"]

NoPage == [made |-> FALSE, closed |-> FALSE, url |-> BlankUrl]
NoFlow == [current_url |-> <<>>, ret |-> None, ci |-> 0, pi |-> 0]
FlowDict(status, message, final_url, storage_state) ==
  [status |-> status, message |-> message, final_url |-> final_url,
   storage_state |-> storage_state]

Init ==
  /\ fs \in InitialFsSet
  /\ cli = NoCli
  /\ crawl = NoCrawl
  /\ pc = "idle"
  /\ call = [op |-> "none"]
  /\ output = None
  /\ pw = "none"
  /\ browser = "none"
  /\ remote = <<>>
  /\ page = NoPage
  /\ clock = 0
  /\ started = 0
  /\ flow = NoFlow
  /\ exc = None
  /\ result = NoResult
  /\ sessions = <<>>
  /\ hist = [touched |-> FALSE, launched |-> FALSE, closes |-> 0,
             effects |-> {}, fs0 |-> fs,
             loop_began |-> 0, sleeps |-> 0, decision |-> None, captured |-> FALSE]

(***************************************************************************)
(* capture_session_async: pre-flight validation (lines 293-306).           *)
(***************************************************************************)
CaptureArgs ==
  [op : {"capture"}, output_path : PathInputs, completion_url_pattern : Patterns,
   start_url : {None, Some(LoginUrl)}, timeout_seconds : Timeouts,
   poll_interval : Polls, overwrite : BOOLEAN, confirm_callback : ConfirmKinds]

(* mutant: timeout_seconds < 0 instead of <= 0 *)
CapturePreflight_ZeroTimeout(fsv, a) ==
  IF a.output_path = <<>> \/ IsBlank(a.output_path)
  THEN Some(Exc(ConfigError, "output_path must be a non-empty path"))
  ELSE IF a.completion_url_pattern = <<>> \/ IsBlank(a.completion_url_pattern)
  THEN Some(Exc(ConfigError, "completion_url_pattern must be provided"))
  ELSE IF a.timeout_seconds < 0
  THEN Some(Exc(ConfigError, "timeout_seconds must be greater than 0"))
  ELSE IF a.poll_interval <= 0
  THEN Some(Exc(ConfigError, "poll_interval must be greater than 0"))
  ELSE _validate_output_target(fsv, _canonicalize_output_path(a.output_path), a.overwrite)

CapturePreflight(fsv, a) ==
  IF a.output_path = <<>> \/ IsBlank(a.output_path)
  THEN Some(Exc(ConfigError, "output_path must be a non-empty path"))
  ELSE IF a.completion_url_pattern = <<>> \/ IsBlank(a.completion_url_pattern)
  THEN Some(Exc(ConfigError, "completion_url_pattern must be provided"))
  ELSE IF a.timeout_seconds <= 0
  THEN Some(Exc(ConfigError, "timeout_seconds must be greater than 0"))
  ELSE IF a.poll_interval <= 0
  THEN Some(Exc(ConfigError, "poll_interval must be greater than 0"))
  ELSE _validate_output_target(fsv, _canonicalize_output_path(a.output_path), a.overwrite)

CaptureCall ==
  /\ pc = "idle"
  /\ \E a \in CaptureArgs :
       LET err == CapturePreflight(fs, a)
       IN /\ call' = a
          /\ IF err # None
             THEN /\ result' = Raised(err[1])
                  /\ pc' = "done"
                  /\ output' = output
             ELSE /\ result' = result
                  /\ pc' = "flow_import"
                  /\ output' = Some(_canonicalize_output_path(a.output_path))
  /\ UNCHANGED <<cli, crawl, fs, pw, browser, remote, page, clock, started, flow, exc, sessions, hist>>

(***************************************************************************)
(* _execute_capture_flow (lines 219-278).                                  *)
(***************************************************************************)
FlowImport ==
  /\ pc = "flow_import"
  /\ \/ /\ pc' = "flow_compile"
        /\ result' = result
     \/ /\ pc' = "done"
        /\ result' = Raised(Exc(RuntimeError, "Playwright is required"))
  /\ UNCHANGED <<cli, crawl, fs, call, output, pw, browser, remote, page, clock, started, flow, exc,
                 sessions, hist>>

FlowCompile ==
  /\ pc = "flow_compile"
  /\ IF Compiles(call.completion_url_pattern)
     THEN /\ started' = clock
          /\ pc' = "flow_enter"
          /\ result' = result
     ELSE /\ started' = started
          /\ pc' = "done"
          /\ result' = Raised(Exc(RegexError, "pattern"))
  /\ UNCHANGED <<cli, crawl, fs, call, output, pw, browser, remote, page, clock, flow, exc, sessions, hist>>

FlowEnter ==
  /\ pc = "flow_enter"
  /\ pw' = "entered"
  /\ pc' = "flow_launch"
  /\ UNCHANGED <<cli, crawl, fs, call, output, browser, remote, page, clock, started, flow, exc, result,
                 sessions, hist>>

FlowLaunch ==
  /\ pc = "flow_launch"
  /\ \E d \in 0..1 : clock' = clock + d
  /\ \/ /\ browser' = "open"
        /\ hist' = [hist EXCEPT !.touched = TRUE, !.launched = TRUE]
        /\ exc' = exc
        /\ pc' = "flow_new_context"
     \/ /\ browser' = browser
        /\ hist' = [hist EXCEPT !.touched = TRUE]
        /\ exc' = Some(Exc(DriverError, "launch"))
        /\ pc' = "flow_pw_exit"
  /\ UNCHANGED <<cli, crawl, fs, call, output, pw, remote, page, started, flow, result, sessions>>

FlowNewContext ==
  /\ pc = "flow_new_context"
  /\ \/ /\ exc' = exc
        /\ pc' = "flow_new_page"
     \/ /\ exc' = Some(Exc(DriverError, "new_context"))
        /\ pc' = "flow_pw_exit"
  /\ UNCHANGED <<cli, crawl, fs, call, output, pw, browser, remote, page, clock, started, flow, result,
                 sessions, hist>>

FlowNewPage ==
  /\ pc = "flow_new_page"
  /\ \/ /\ page' = [made |-> TRUE, closed |-> FALSE, url |-> BlankUrl]
        /\ exc' = exc
        /\ pc' = "flow_goto"
     \/ /\ page' = page
        /\ exc' = Some(Exc(DriverError, "new_page"))
        /\ pc' = "flow_pw_exit"
  /\ UNCHANGED <<cli, crawl, fs, call, output, pw, browser, remote, clock, started, flow, result,
                 sessions, hist>>

(* hist.loop_began records monotonic() on entry to `while True` *)
FlowGoto ==
  /\ pc = "flow_goto"
  /\ IF call.start_url = None \/ call.start_url = Some(<<>>)
     THEN /\ pc' = "loop_closed"
          /\ UNCHANGED <<page, exc, clock>>
     ELSE /\ \E d \in 0..1 : clock' = clock + d
          /\ \/ /\ ~page.closed
                /\ page' = [page EXCEPT !.url = call.start_url[1]]
                /\ exc' = exc
                /\ pc' = "loop_closed"
             \/ /\ page' = page
                /\ exc' = Some(Exc(DriverError, "goto"))
                /\ pc' = "flow_finally"
  /\ hist' = IF pc' = "loop_closed" THEN [hist EXCEPT !.loop_began = clock'] ELSE hist
  /\ UNCHANGED <<cli, crawl, fs, call, output, pw, browser, remote, started, flow, result, sessions>>

(* mutant: the loop does not look at page.is_closed() *)
LoopClosed_NoCheck ==
  /\ pc = "loop_closed"
  /\ flow' = flow
  /\ pc' = "loop_match"
  /\ UNCHANGED <<cli, crawl, fs, call, output, pw, browser, remote, page, clock, started, exc, result,
                 sessions, hist>>

LoopClosed ==
  /\ pc = "loop_closed"
  /\ IF page.closed
     THEN /\ flow' = [flow EXCEPT !.ret = Some(FlowDict("abort", "page was closed", None, None))]
          /\ pc' = "flow_finally"
     ELSE /\ flow' = flow
          /\ pc' = "loop_match"
  /\ UNCHANGED <<cli, crawl, fs, call, output, pw, browser, remote, page, clock, started, exc, result,
                 sessions, hist>>

(* mutant: an elapsed timeout takes precedence over a matching URL *)
LoopMatch_TimeoutFirst ==
  /\ pc = "loop_match"
  /\ flow' = [flow EXCEPT !.current_url = page.url]
  /\ pc' = IF Search(call.completion_url_pattern, page.url)
              /\ (clock - started) < call.timeout_seconds
           THEN (IF call.confirm_callback = "none" THEN "loop_capture" ELSE "loop_confirm")
           ELSE "loop_timeout"
  /\ UNCHANGED <<cli, crawl, fs, call, output, pw, browser, remote, page, clock, started, exc, result,
                 sessions, hist>>

(* mutant: a declined match is remembered and not offered again *)
LoopMatch_RemembersDecline ==
  /\ pc = "loop_match"
  /\ flow' = [flow EXCEPT !.current_url = page.url]
  /\ pc' = IF Search(call.completion_url_pattern, page.url) /\ hist.decision # Some(FALSE)
           THEN (IF call.confirm_callback = "none" THEN "loop_capture" ELSE "loop_confirm")
           ELSE "loop_timeout"
  /\ UNCHANGED <<cli, crawl, fs, call, output, pw, browser, remote, page, clock, started, exc, result,
                 sessions, hist>>

LoopMatch ==
  /\ pc = "loop_match"
  /\ flow' = [flow EXCEPT !.current_url = page.url]
  /\ pc' = IF Search(call.completion_url_pattern, page.url)
           THEN (IF call.confirm_callback = "none" THEN "loop_capture" ELSE "loop_confirm")
           ELSE "loop_timeout"
  /\ UNCHANGED <<cli, crawl, fs, call, output, pw, browser, remote, page, clock, started, exc, result,
                 sessions, hist>>

(* decision = confirm_callback(current_url); a coroutine is awaited, any   *)
(* other object is taken by its truth value.                               *)
Confirmed(kind, answer) ==
  CASE kind = "sync" -> answer
    [] kind = "coroutine" -> answer
    [] kind = "future" -> TRUE

(* `answer` is the boolean the callback's decision is or resolves to;     *)
(* hist.decision records it.                                               *)
LoopConfirm ==
  /\ pc = "loop_confirm"
  /\ \/ \E answer \in BOOLEAN :
          /\ pc' = IF Confirmed(call.confirm_callback, answer)
                   THEN "loop_capture" ELSE "loop_timeout"
          /\ exc' = exc
          /\ hist' = [hist EXCEPT !.decision = Some(answer)]
     \/ /\ exc' = Some(Exc(CallbackError, "confirm_callback"))
        /\ pc' = "flow_finally"
        /\ hist' = hist
  /\ UNCHANGED <<cli, crawl, fs, call, output, pw, browser, remote, page, clock, started, flow, result,
                 sessions>>

(* hist.captured records that context.storage_state() returned *)
LoopCapture ==
  /\ pc = "loop_capture"
  /\ \/ \E payload \in CapturedPayloads :
          /\ flow' = [flow EXCEPT !.ret = Some(FlowDict("success", "collected",
                                                      Some(flow.current_url), Some(payload)))]
          /\ exc' = exc
          /\ hist' = [hist EXCEPT !.captured = TRUE]
     \/ /\ flow' = flow
        /\ exc' = Some(Exc(DriverError, "storage_state"))
        /\ hist' = hist
  /\ pc' = "flow_finally"
  /\ UNCHANGED <<cli, crawl, fs, call, output, pw, browser, remote, page, clock, started, result,
                 sessions>>

(* mutant: the timeout expires only strictly after timeout_seconds *)
LoopTimeout_Strict ==
  /\ pc = "loop_timeout"
  /\ IF (clock - started) > call.timeout_seconds
     THEN /\ flow' = [flow EXCEPT !.ret = Some(FlowDict("timeout", "timed out",
                                                      Some(flow.current_url), None))]
          /\ pc' = "flow_finally"
     ELSE /\ flow' = flow
          /\ pc' = "loop_sleep"
  /\ UNCHANGED <<cli, crawl, fs, call, output, pw, browser, remote, page, clock, started, exc, result,
                 sessions, hist>>

LoopTimeout ==
  /\ pc = "loop_timeout"
  /\ IF (clock - started) >= call.timeout_seconds
     THEN /\ flow' = [flow EXCEPT !.ret = Some(FlowDict("timeout", "timed out",
                                                      Some(flow.current_url), None))]
          /\ pc' = "flow_finally"
     ELSE /\ flow' = flow
          /\ pc' = "loop_sleep"
  /\ UNCHANGED <<cli, crawl, fs, call, output, pw, browser, remote, page, clock, started, exc, result,
                 sessions, hist>>

LoopSleep ==
  /\ pc = "loop_sleep"
  /\ \E d \in call.poll_interval..(call.poll_interval + 1) :
       /\ clock + d <= MaxClock
       /\ clock' = clock + d
  /\ pc' = "loop_closed"
  /\ hist' = [hist EXCEPT !.sleeps = @ + 1]
  /\ UNCHANGED <<cli, crawl, fs, call, output, pw, browser, remote, page, started, flow, exc, result,
                 sessions>>

(* mutant: a failure of browser.close() is swallowed *)
FlowFinally_SwallowsCloseError ==
  /\ pc = "flow_finally"
  /\ hist' = [hist EXCEPT !.closes = @ + 1]
  /\ \/ /\ browser' = "closed"
        /\ UNCHANGED <<exc, flow>>
     \/ /\ browser' = browser
        /\ UNCHANGED <<exc, flow>>
  /\ pc' = "flow_pw_exit"
  /\ UNCHANGED <<cli, crawl, fs, call, output, pw, remote, page, clock, started, result, sessions>>

(* finally: await browser.close() *)
FlowFinally ==
  /\ pc = "flow_finally"
  /\ hist' = [hist EXCEPT !.closes = @ + 1]
  /\ \/ /\ browser' = "closed"
        /\ UNCHANGED <<exc, flow>>
     \/ /\ browser' = browser
        /\ exc' = Some(Exc(DriverError, "close"))
        /\ flow' = [flow EXCEPT !.ret = None]
  /\ pc' = "flow_pw_exit"
  /\ UNCHANGED <<cli, crawl, fs, call, output, pw, remote, page, clock, started, result, sessions>>

(* leaving `async with async_playwright()`, then back in the caller        *)
FlowPwExit ==
  /\ pc = "flow_pw_exit"
  /\ pw' = "exited"
  /\ IF exc # None
     THEN /\ result' = Raised(exc[1])
          /\ pc' = "done"
     ELSE /\ result' = result
          /\ pc' = "capture_dispatch"
  /\ UNCHANGED <<cli, crawl, fs, call, output, browser, remote, page, clock, started, flow, exc,
                 sessions, hist>>

(* capture_session_async, lines 317-336 *)
(* mutant: the whole flow dict is handed to the writer *)
CapturedPayload_WholeFlow(f) ==
  JObj(<<Member(<<"a">>, IF f.storage_state = None THEN JNull ELSE f.storage_state[1])>>)

CapturedPayload(f) == IF f.storage_state = None THEN JNull ELSE f.storage_state[1]

(* mutant: the timeout result carries the output path *)
DispatchResult_PathOnTimeout(f, out, werr) ==
  IF f.status = "success"
  THEN (IF werr # None THEN Raised(werr[1])
        ELSE Returned(CaptureResult("success", f.message, out, f.final_url)))
  ELSE IF f.status = "timeout"
  THEN Returned(CaptureResult("timeout", f.message, out, f.final_url))
  ELSE IF f.status = "abort"
  THEN Returned(CaptureResult("abort", f.message, None, f.final_url))
  ELSE Raised(Exc(RuntimeError, "Unknown capture status"))

DispatchResult(f, out, werr) ==
  IF f.status = "success"
  THEN (IF werr # None THEN Raised(werr[1])
        ELSE Returned(CaptureResult("success", f.message, out, f.final_url)))
  ELSE IF f.status = "timeout"
  THEN Returned(CaptureResult("timeout", f.message, None, f.final_url))
  ELSE IF f.status = "abort"
  THEN Returned(CaptureResult("abort", f.message, None, f.final_url))
  ELSE Raised(Exc(RuntimeError, "Unknown capture status"))

CaptureDispatch ==
  /\ pc = "capture_dispatch"
  /\ LET f == flow.ret[1]
         w == IF f.status = "success"
              THEN _write_storage_state(fs, output[1], CapturedPayload(f))
              ELSE [fs |-> fs, err |-> None, effects |-> {}]
     IN /\ fs' = w.fs
        /\ hist' = [hist EXCEPT !.effects = @ \cup w.effects]
        /\ result' = DispatchResult(f, output, w.err)
  /\ pc' = "done"
  /\ UNCHANGED <<cli, crawl, call, output, pw, browser, remote, page, clock, started, flow, exc, sessions>>

(***************************************************************************)
(* The user and the site, while the flow is suspended on an await.         *)
(***************************************************************************)
(* The awaits of the flow after the page exists: page.goto (line 236), the  *)
(* awaited confirmation coroutine (line 252), context.storage_state (line  *)
(* 258), asyncio.sleep (line 276) and browser.close (line 278).            *)
AwaitPoints == {"flow_goto", "loop_confirm", "loop_capture", "loop_sleep", "flow_finally"}

(* mutant: the flow can be interleaved at every step *)
Suspended_Anywhere == TRUE

Suspended ==
  /\ pc \in AwaitPoints
  /\ pc = "flow_goto" => (call.start_url # None /\ call.start_url # Some(<<>>))
  /\ pc = "loop_confirm" => call.confirm_callback = "coroutine"

UserClosesPage ==
  /\ Suspended
  /\ page.made /\ ~page.closed
  /\ page' = [page EXCEPT !.closed = TRUE]
  /\ UNCHANGED <<cli, crawl, fs, pc, call, output, pw, browser, remote, clock, started, flow, exc,
                 result, sessions, hist>>

PageNavigates ==
  /\ Suspended
  /\ page.made /\ ~page.closed
  /\ \E u \in {LoginUrl, DashUrl} :
       /\ u # page.url
       /\ page' = [page EXCEPT !.url = u]
  /\ UNCHANGED <<cli, crawl, fs, pc, call, output, pw, browser, remote, clock, started, flow, exc,
                 result, sessions, hist>>

CaptureNext ==
  \/ CaptureCall \/ FlowImport \/ FlowCompile \/ FlowEnter \/ FlowLaunch
  \/ FlowNewContext \/ FlowNewPage \/ FlowGoto
  \/ LoopClosed \/ LoopMatch \/ LoopConfirm \/ LoopCapture \/ LoopTimeout \/ LoopSleep
  \/ FlowFinally \/ FlowPwExit \/ CaptureDispatch
  \/ UserClosesPage \/ PageNavigates

(***************************************************************************)
(* The browser reached over the remote-debugging endpoint: a sequence of   *)
(* contexts, each with its pages and its storage state.                    *)
(***************************************************************************)
StateA == JObj(<<Member(<<"a">>, JArr(<<>>))>>)
StateB == JObj(<<Member(<<"a">>, JStr(<<SUR>>))>>)
StateC == JArr(<<>>)
CtxStates == {StateA, StateB, StateC}

RemotePage(url, title) == [url |-> url, title |-> title]
ListPageKinds == {RemotePage(LoginUrl, "ok"), RemotePage(LoginUrl, "raises"),
                  RemotePage(<<>>, "ok")}
ListBrowsers ==
  SeqsUpTo({[pages |-> ps, state |-> StateA] : ps \in SeqsUpTo(ListPageKinds, MaxPages)},
           MaxContexts)

ExportPageLists ==
  {<<>>} \cup {[i \in 1..n |-> IF i = 1 THEN RemotePage(u, "ok") ELSE RemotePage(DashUrl, "ok")] :
                 n \in 1..MaxPages, u \in {LoginUrl, <<>>}}
ExportBrowsers ==
  SeqsUpTo({[pages |-> ps, state |-> st] : ps \in ExportPageLists, st \in CtxStates},
           MaxContexts)

CdpUrls == {<<>>, <<" ">>, <<" ", "c", " ">>}

RECURSIVE LStrip(_)
LStrip(s) == IF s # <<>> /\ Head(s) = " " THEN LStrip(Tail(s)) ELSE s
RECURSIVE RStrip(_)
RStrip(s) == IF s # <<>> /\ s[Len(s)] = " " THEN RStrip(SubSeq(s, 1, Len(s) - 1)) ELSE s
Strip(s) == RStrip(LStrip(s))

(* _normalize_cdp_url: [err, url] *)
_normalize_cdp_url(cdp_url) ==
  IF cdp_url = <<>> \/ Strip(cdp_url) = <<>>
  THEN [err |-> Some(Exc(ConfigError, "cdp_url must be a non-empty URL")), url |-> <<>>]
  ELSE [err |-> None, url |-> Strip(cdp_url)]

(***************************************************************************)
(* export_cdp_storage_state_async (lines 141-207).                         *)
(***************************************************************************)
ExportPathInputs == {EmptyPath, <<"out">>, <<"new", "out">>, <<"d">>, <<"out", "x">>}
ContextIndexes == (-1..MaxContexts) \cup {5}
ExportArgs ==
  [op : {"export"}, output_path : ExportPathInputs, cdp_url : CdpUrls,
   context_index : ContextIndexes, overwrite : BOOLEAN]

ExportPreflight(fsv, a) ==
  IF a.output_path = <<>> \/ IsBlank(a.output_path)
  THEN Some(Exc(ConfigError, "output_path must be a non-empty path"))
  ELSE IF a.context_index < 0
  THEN Some(Exc(ConfigError, "context_index must be greater than or equal to 0"))
  ELSE IF _normalize_cdp_url(a.cdp_url).err # None
  THEN _normalize_cdp_url(a.cdp_url).err
  ELSE _validate_output_target(fsv, _canonicalize_output_path(a.output_path), a.overwrite)

ExportCall ==
  /\ pc = "idle"
  /\ \E a \in ExportArgs :
       LET err == ExportPreflight(fs, a)
       IN /\ call' = a
          /\ IF err # None
             THEN /\ result' = Raised(err[1])
                  /\ pc' = "done"
                  /\ output' = output
             ELSE /\ result' = result
                  /\ pc' = "export_import"
                  /\ output' = Some(_canonicalize_output_path(a.output_path))
  /\ UNCHANGED <<cli, crawl, fs, pw, browser, remote, page, clock, started, flow, exc, sessions, hist>>

ExportImport ==
  /\ pc = "export_import"
  /\ \/ /\ pc' = "export_enter"
        /\ result' = result
     \/ /\ pc' = "done"
        /\ result' = Raised(Exc(RuntimeError, "Playwright is required"))
  /\ UNCHANGED <<cli, crawl, fs, call, output, pw, browser, remote, page, clock, started, flow, exc,
                 sessions, hist>>

ExportEnter ==
  /\ pc = "export_enter"
  /\ pw' = "entered"
  /\ pc' = "export_connect"
  /\ UNCHANGED <<cli, crawl, fs, call, output, browser, remote, page, clock, started, flow, exc, result,
                 sessions, hist>>

ExportConnect ==
  /\ pc = "export_connect"
  /\ \/ /\ browser' = "open"
        /\ remote' \in ExportBrowsers
        /\ hist' = [hist EXCEPT !.touched = TRUE, !.launched = TRUE]
        /\ exc' = exc
        /\ pc' = "export_select"
     \/ /\ UNCHANGED <<browser, remote>>
        /\ hist' = [hist EXCEPT !.touched = TRUE]
        /\ exc' = Some(Exc(RuntimeError, "Failed to connect to CDP endpoint"))
        /\ pc' = "export_pw_exit"
  /\ UNCHANGED <<cli, crawl, fs, call, output, pw, page, clock, started, flow, result, sessions>>

(* lines 179-193: [err, final_url] *)
(* mutant: the zero-contexts error is raised as a config error *)
ExportSelection_ZeroIsConfig(contexts, context_index) ==
  IF contexts = <<>>
  THEN [err |-> Some(Exc(ConfigError, "No browser contexts available")), final_url |-> None]
  ELSE IF context_index >= Len(contexts)
  THEN [err |-> Some(ExcRange(ConfigError, "context_index out of range", 0, Len(contexts) - 1)),
        final_url |-> None]
  ELSE LET context == contexts[context_index + 1]
       IN [err |-> None,
           final_url |-> IF context.pages # <<>> /\ context.pages[1].url # <<>>
                         THEN Some(context.pages[1].url) ELSE None]

(* mutant: the message names the range 0..N *)
ExportSelection_RangeOffByOne(contexts, context_index) ==
  IF contexts = <<>>
  THEN [err |-> Some(Exc(RuntimeError, "No browser contexts available")), final_url |-> None]
  ELSE IF context_index >= Len(contexts)
  THEN [err |-> Some(ExcRange(ConfigError, "context_index out of range", 0, Len(contexts))),
        final_url |-> None]
  ELSE LET context == contexts[context_index + 1]
       IN [err |-> None,
           final_url |-> IF context.pages # <<>> /\ context.pages[1].url # <<>>
                         THEN Some(context.pages[1].url) ELSE None]

ExportSelection(contexts, context_index) ==
  IF contexts = <<>>
  THEN [err |-> Some(Exc(RuntimeError, "No browser contexts available")), final_url |-> None]
  ELSE IF context_index >= Len(contexts)
  THEN [err |-> Some(ExcRange(ConfigError, "context_index out of range", 0, Len(contexts) - 1)),
        final_url |-> None]
  ELSE LET context == contexts[context_index + 1]
       IN [err |-> None,
           final_url |-> IF context.pages # <<>> /\ context.pages[1].url # <<>>
                         THEN Some(context.pages[1].url) ELSE None]

ExportSelect ==
  /\ pc = "export_select"
  /\ LET sel == ExportSelection(remote, call.context_index)
     IN IF sel.err # None
        THEN /\ exc' = sel.err
             /\ flow' = flow
             /\ pc' = "export_finally"
        ELSE /\ exc' = exc
             /\ flow' = [flow EXCEPT !.ret = Some(FlowDict("success", "exported",
                                                           sel.final_url, None))]
             /\ pc' = "export_state"
  /\ UNCHANGED <<cli, crawl, fs, call, output, pw, browser, remote, page, clock, started, result,
                 sessions, hist>>

(* mutant: the state of the first context is captured *)
ExportState_FirstContext ==
  /\ pc = "export_state"
  /\ \/ /\ flow' = [flow EXCEPT !.ret = Some([flow.ret[1] EXCEPT !.storage_state =
                                           Some(remote[1].state)])]
        /\ exc' = exc
        /\ pc' = "export_write"
     \/ /\ flow' = flow
        /\ exc' = Some(Exc(DriverError, "storage_state"))
        /\ pc' = "export_finally"
  /\ UNCHANGED <<cli, crawl, fs, call, output, pw, browser, remote, page, clock, started, result,
                 sessions, hist>>

(* line 195: await context.storage_state() *)
ExportState ==
  /\ pc = "export_state"
  /\ \/ /\ flow' = [flow EXCEPT !.ret = Some([flow.ret[1] EXCEPT !.storage_state =
                                           Some(remote[call.context_index + 1].state)])]
        /\ exc' = exc
        /\ pc' = "export_write"
     \/ /\ flow' = flow
        /\ exc' = Some(Exc(DriverError, "storage_state"))
        /\ pc' = "export_finally"
  /\ UNCHANGED <<cli, crawl, fs, call, output, pw, browser, remote, page, clock, started, result,
                 sessions, hist>>

(* line 195: _write_storage_state(output, ...) *)
ExportWrite ==
  /\ pc = "export_write"
  /\ LET w == _write_storage_state(fs, output[1], flow.ret[1].storage_state[1])
     IN /\ fs' = w.fs
        /\ hist' = [hist EXCEPT !.effects = @ \cup w.effects]
        /\ exc' = w.err
  /\ pc' = "export_finally"
  /\ UNCHANGED <<cli, crawl, call, output, pw, browser, remote, page, clock, started, flow, result,
                 sessions>>

ExportFinally ==
  /\ pc = "export_finally"
  /\ hist' = [hist EXCEPT !.closes = @ + 1]
  /\ \/ /\ browser' = "closed"
        /\ exc' = exc
     \/ /\ browser' = browser
        /\ exc' = Some(Exc(DriverError, "close"))
  /\ pc' = "export_pw_exit"
  /\ UNCHANGED <<cli, crawl, fs, call, output, pw, remote, page, clock, started, flow, result, sessions>>

(* leaving `async with`, then lines 199-207 *)
ExportPwExit ==
  /\ pc = "export_pw_exit"
  /\ pw' = "exited"
  /\ result' = IF exc # None THEN Raised(exc[1])
               ELSE Returned(CaptureResult("success", "exported", output,
                                           flow.ret[1].final_url))
  /\ pc' = "done"
  /\ UNCHANGED <<cli, crawl, fs, call, output, browser, remote, page, clock, started, flow, exc,
                 sessions, hist>>

ExportNext ==
  \/ ExportCall \/ ExportImport \/ ExportEnter \/ ExportConnect \/ ExportSelect
  \/ ExportState \/ ExportWrite \/ ExportFinally \/ ExportPwExit

(***************************************************************************)
(* list_cdp_sessions_async (lines 85-138).                                 *)
(***************************************************************************)
CdpSessionEntry(context_index, page_index, url, title) ==
  [context_index |-> context_index, page_index |-> page_index, url |-> url,
   title |-> title]

ListCall ==
  /\ pc = "idle"
  /\ \E u \in CdpUrls :
       /\ call' = [op |-> "list", cdp_url |-> u]
       /\ IF _normalize_cdp_url(u).err # None
          THEN /\ result' = Raised(_normalize_cdp_url(u).err[1])
               /\ pc' = "done"
          ELSE /\ result' = result
               /\ pc' = "list_import"
  /\ UNCHANGED <<cli, crawl, fs, output, pw, browser, remote, page, clock, started, flow, exc, sessions,
                 hist>>

ListImport ==
  /\ pc = "list_import"
  /\ \/ /\ pc' = "list_enter"
        /\ result' = result
     \/ /\ pc' = "done"
        /\ result' = Raised(Exc(RuntimeError, "Playwright is required"))
  /\ UNCHANGED <<cli, crawl, fs, call, output, pw, browser, remote, page, clock, started, flow, exc,
                 sessions, hist>>

ListEnter ==
  /\ pc = "list_enter"
  /\ pw' = "entered"
  /\ pc' = "list_connect"
  /\ UNCHANGED <<cli, crawl, fs, call, output, browser, remote, page, clock, started, flow, exc, result,
                 sessions, hist>>

ListConnect ==
  /\ pc = "list_connect"
  /\ \/ /\ browser' = "open"
        /\ remote' \in ListBrowsers
        /\ hist' = [hist EXCEPT !.touched = TRUE, !.launched = TRUE]
        /\ exc' = exc
        /\ pc' = "list_context"
     \/ /\ UNCHANGED <<browser, remote>>
        /\ hist' = [hist EXCEPT !.touched = TRUE]
        /\ exc' = Some(Exc(RuntimeError, "Failed to connect to CDP endpoint"))
        /\ pc' = "list_pw_exit"
  /\ UNCHANGED <<cli, crawl, fs, call, output, pw, page, clock, started, flow, result, sessions>>

(* lines 107-118: the next context of enumerate(browser.contexts) *)
(* mutant: a context without pages is skipped *)
EmptyContextEntries_Skipped(context_index) == <<>>

EmptyContextEntries(context_index) == <<CdpSessionEntry(context_index, None, <<>>, None)>>

ListContext ==
  /\ pc = "list_context"
  /\ IF flow.ci = Len(remote)
     THEN /\ pc' = "list_finally"
          /\ UNCHANGED <<flow, sessions>>
     ELSE IF remote[flow.ci + 1].pages = <<>>
     THEN /\ sessions' = sessions \o EmptyContextEntries(flow.ci)
          /\ flow' = [flow EXCEPT !.ci = @ + 1]
          /\ pc' = "list_context"
     ELSE /\ sessions' = sessions
          /\ flow' = [flow EXCEPT !.pi = 0]
          /\ pc' = "list_page"
  /\ UNCHANGED <<cli, crawl, fs, call, output, pw, browser, remote, page, clock, started, exc, result,
                 hist>>

(* lines 120-134: one page of enumerate(pages) *)
(* mutant: the title of a page whose lookup fails is not recorded as absent *)
PageEntry_FailedTitleKept(context_index, page_index, p) ==
  CdpSessionEntry(context_index, Some(page_index), p.url, Some(p.title))

PageEntry(context_index, page_index, p) ==
  CdpSessionEntry(context_index, Some(page_index), p.url,
                  IF p.title = "raises" THEN None ELSE Some(p.title))

ListPage ==
  /\ pc = "list_page"
  /\ LET pages == remote[flow.ci + 1].pages
     IN /\ sessions' = Append(sessions, PageEntry(flow.ci, flow.pi, pages[flow.pi + 1]))
        /\ IF flow.pi + 1 = Len(pages)
           THEN /\ flow' = [flow EXCEPT !.ci = @ + 1, !.pi = 0]
                /\ pc' = "list_context"
           ELSE /\ flow' = [flow EXCEPT !.pi = @ + 1]
                /\ pc' = "list_page"
  /\ UNCHANGED <<cli, crawl, fs, call, output, pw, browser, remote, page, clock, started, exc, result,
                 hist>>

ListFinally ==
  /\ pc = "list_finally"
  /\ hist' = [hist EXCEPT !.closes = @ + 1]
  /\ \/ /\ browser' = "closed"
        /\ exc' = exc
     \/ /\ browser' = browser
        /\ exc' = Some(Exc(DriverError, "close"))
  /\ pc' = "list_pw_exit"
  /\ UNCHANGED <<cli, crawl, fs, call, output, pw, remote, page, clock, started, flow, result, sessions>>

ListPwExit ==
  /\ pc = "list_pw_exit"
  /\ pw' = "exited"
  /\ result' = IF exc # None THEN Raised(exc[1]) ELSE Returned(sessions)
  /\ pc' = "done"
  /\ UNCHANGED <<cli, crawl, fs, call, output, browser, remote, page, clock, started, flow, exc,
                 sessions, hist>>

ListNext ==
  \/ ListCall \/ ListImport \/ ListEnter \/ ListConnect \/ ListContext \/ ListPage
  \/ ListFinally \/ ListPwExit

Next == CaptureNext \/ ExportNext \/ ListNext

Spec == Init /\ [][Next]_vars

(***************************************************************************)
(* The storage-state writer on its own: one call of _write_storage_state   *)
(* on a canonical path, with any payload.                                  *)
(***************************************************************************)
WriterPaths == {OutFile, <<"/", "w", "new", "out">>, <<"/", "w", "out", "x">>,
                <<"/", "w", "d">>}

WriterCall ==
  /\ pc = "idle"
  /\ \E path \in WriterPaths, payload \in Payloads :
       LET w == _write_storage_state(fs, path, payload)
       IN /\ call' = [op |-> "write", path |-> path, payload |-> payload]
          /\ fs' = w.fs
          /\ hist' = [hist EXCEPT !.effects = @ \cup w.effects]
          /\ result' = IF w.err # None THEN Raised(w.err[1]) ELSE Returned(JNull)
  /\ pc' = "done"
  /\ UNCHANGED <<cli, crawl, output, pw, browser, remote, page, clock, started, flow, exc, sessions>>

WriterNext == WriterCall

SpecWriter == Init /\ [][WriterNext]_vars

(***************************************************************************)
(* Properties.                                                             *)
(***************************************************************************)
IsRaised(cls) == result.kind = "raised" /\ result.exc[1].cls = cls

(* C1: every CaptureResult returned by capture_session_async or            *)
(* export_cdp_storage_state_async has storage_state_path set if and only   *)
(* if its status is success.                                               *)
C1_PathIffSuccess ==
  (pc = "done" /\ call.op \in {"capture", "export"} /\ result.kind = "returned") =>
     ((result.value[1].storage_state_path # None) <=> (result.value[1].status = "success"))

C1_Witness ==
  /\ pc = "done" /\ call.op = "capture" /\ result.kind = "returned"
  /\ result.value[1].status = "success"
  /\ result.value[1].storage_state_path = output
  /\ output # None

(* C2: capture leaves the file system alone when the flow ends in timeout  *)
(* or abort, and when it returns success the output file exists and        *)
(* re-parses to a JSON object equal to the captured payload.               *)
C2_WriteOnlyOnSuccess ==
  call.op = "capture" =>
    /\ (flow.ret # None /\ flow.ret[1].status \in {"timeout", "abort"}) =>
          (fs = hist.fs0 /\ hist.effects = {})
    /\ (pc = "done" /\ result.kind = "returned" /\ result.value[1].status = "success") =>
          /\ KindOf(fs, output[1]) = "file"
          /\ Loads(fs[output[1]].content).ok
          /\ IsDict(Loads(fs[output[1]].content).val)
          /\ Loads(fs[output[1]].content).val = flow.ret[1].storage_state[1]

C2_Witness ==
  /\ pc = "done" /\ call.op = "capture" /\ result.kind = "returned"
  /\ result.value[1].status = "success"
  /\ fs # hist.fs0
  /\ "write" \in hist.effects

(* C3: capture raises a config error, with no browser launched and the     *)
(* flow never started, for an empty or blank output path, an empty or      *)
(* blank pattern, timeout_seconds <= 0, poll_interval <= 0, an existing    *)
(* target without overwrite and a target that is a directory; any other    *)
(* call passes pre-flight.                                                 *)
C3_PreflightRejects ==
  call.op = "capture" =>
    LET target == _canonicalize_output_path(call.output_path)
        bad == \/ call.output_path = <<>>
               \/ IsBlank(call.output_path)
               \/ call.completion_url_pattern = <<>>
               \/ IsBlank(call.completion_url_pattern)
               \/ call.timeout_seconds <= 0
               \/ call.poll_interval <= 0
               \/ (Exists(hist.fs0, target) /\ ~call.overwrite)
               \/ IsDir(hist.fs0, target)
    IN /\ bad => /\ pc = "done"
                 /\ IsRaised(ConfigError)
                 /\ ~hist.touched /\ pw = "none" /\ browser = "none"
                 /\ flow = NoFlow /\ fs = hist.fs0
       /\ ~bad => ~IsRaised(ConfigError)

C3_Witness ==
  /\ pc = "done" /\ call.op = "capture"
  /\ call.output_path = <<"d">> /\ call.overwrite
  /\ IsRaised(ConfigError)
  /\ result.exc[1].msg = "is a directory"

(* C4: a completion pattern that does not compile is rejected by capture   *)
(* as a config error, before any browser resource is acquired.             *)
C4_BadRegexIsConfigError ==
  (/\ call.op = "capture" /\ pc = "done"
   /\ ~Compiles(call.completion_url_pattern)
   /\ result.kind = "raised"
   /\ result.exc[1].msg # "Playwright is required") =>
     (IsRaised(ConfigError) /\ ~hist.touched)

(* C5: once the interactive flow has launched the browser, browser.close() *)
(* has run by the time the call returns or raises.                         *)
C5_BrowserClosedOnEveryExit ==
  (call.op = "capture" /\ pc = "done" /\ hist.launched) => hist.closes >= 1

(* C6 (as stated): every config error of capture and export reaches the    *)
(* caller with no browser resource touched.                                *)
C6_ConfigErrorsBeforeBrowser ==
  (pc = "done" /\ call.op \in {"capture", "export"} /\ IsRaised(ConfigError)) =>
     ~hist.touched

(* C6 (amended): every config error of capture and export is raised before *)
(* any browser resource is touched, except the out-of-range context_index  *)
(* error of export, which is raised after connecting and reaches the       *)
(* caller after the disconnect step has run.                               *)
C6_ConfigErrorsBeforeBrowserExceptRange ==
  (pc = "done" /\ call.op \in {"capture", "export"} /\ IsRaised(ConfigError)) =>
     \/ (~hist.touched /\ pw = "none" /\ browser = "none")
     \/ /\ call.op = "export"
        /\ result.exc[1].msg = "context_index out of range"
        /\ call.context_index >= Len(remote)
        /\ hist.launched /\ hist.closes = 1 /\ browser = "closed"

C6_Witness ==
  /\ pc = "done" /\ call.op = "export" /\ IsRaised(ConfigError)
  /\ call.context_index < 0
  /\ result.exc[1].msg = "context_index must be greater than or equal to 0"
  /\ ~hist.touched

(* C7: every error that reaches the caller of capture or export after a    *)
(* browser was launched or connected is raised after the close step has    *)
(* run, and a write failure on the success path of capture raises.         *)
C7_ErrorsAfterClose ==
  (pc = "done" /\ call.op \in {"capture", "export"} /\ hist.launched) =>
     /\ result.kind = "raised" => hist.closes >= 1
     /\ (/\ call.op = "capture" /\ flow.ret # None /\ flow.ret[1].status = "success"
         /\ _write_storage_state(hist.fs0, output[1], CapturedPayload(flow.ret[1])).err # None)
          => result.kind = "raised"

RECURSIVE ExpectedCount(_)
ExpectedCount(contexts) ==
  IF contexts = <<>> THEN 0
  ELSE (IF Len(Head(contexts).pages) = 0 THEN 1 ELSE Len(Head(contexts).pages))
       + ExpectedCount(Tail(contexts))

C9_ListEntries ==
  (call.op = "list" /\ pc = "done" /\ result.kind = "returned") =>
    LET es == result.value[1]
    IN /\ Len(es) = ExpectedCount(remote)
       /\ \A i \in 1..Len(es) : es[i].context_index \in 0..(Len(remote) - 1)
       /\ \A c \in 1..Len(remote) :
            LET mine == {i \in 1..Len(es) : es[i].context_index = c - 1}
                k == Len(remote[c].pages)
            IN IF k = 0
               THEN /\ Cardinality(mine) = 1
                    /\ \A i \in mine : es[i].page_index = None /\ es[i].url = <<>>
               ELSE /\ Cardinality(mine) = k
                    /\ {es[i].page_index : i \in mine} = {Some(m) : m \in 0..(k - 1)}
                    /\ \A i \in mine :
                         es[i].url = remote[c].pages[es[i].page_index[1] + 1].url
       /\ \A i, j \in 1..Len(es) :
            i < j =>
              \/ es[i].context_index < es[j].context_index
              \/ /\ es[i].context_index = es[j].context_index
                 /\ es[i].page_index # None /\ es[j].page_index # None
                 /\ es[i].page_index[1] < es[j].page_index[1]

C9_Witness ==
  /\ pc = "done" /\ call.op = "list" /\ result.kind = "returned"
  /\ Len(remote) = 2
  /\ Len(remote[1].pages) = 2 /\ Len(remote[2].pages) = 0
  /\ Len(result.value[1]) = 3
  /\ result.value[1][3].page_index = None

(* C10: for any JSON object P and a writable target, the writer succeeds   *)
(* and re-reading the file yields a value equal to P; a payload that is    *)
(* not a JSON object is rejected with nothing created or written.          *)
C10_RoundTrip ==
  (pc = "done" /\ call.op = "write") =>
     /\ (/\ IsDict(call.payload)
         /\ MkdirParents(hist.fs0, call.path).err = None
         /\ ~IsDir(hist.fs0, call.path)) =>
           /\ result.kind = "returned"
           /\ KindOf(fs, call.path) = "file"
           /\ Loads(fs[call.path].content).ok
           /\ Loads(fs[call.path].content).val = call.payload
     /\ ~IsDict(call.payload) =>
           (result.kind = "raised" /\ fs = hist.fs0 /\ hist.effects = {})

(***************************************************************************)
(* AuthResolver (spec section 4.1).  resolve_auth validates a caller's     *)
(* auth reference against the file system and returns the canonical path   *)
(* of the storage-state file.                                              *)
(***************************************************************************)
AuthConfigError == "AuthConfigError"

AuthFile == <<"/", "h", "out">>
Unreadable(c) == [kind |-> "file", content |-> c, readable |-> FALSE]
IsReadable(node) == IF "readable" \in DOMAIN node THEN node.readable ELSE TRUE

AuthFileNodes == {Absent, Dir, File(OldContent), File(<<"{", "}">>), File(<<>>),
                  File(<<"{", DQ, "a">>), File(<<"[", "]">>), File(<<"1">>),
                  Unreadable(OldContent)}
AuthFsSet == {[InitialFs(Absent) EXCEPT ![AuthFile] = n] : n \in AuthFileNodes}

AuthPathInputs == {<<>>, <<" ">>, <<"~", "out">>, <<"/", "h", "out">>,
                   <<"..", "h", "out">>, <<"/", "h", ".", "d", "..", "out">>,
                   <<"out">>, <<"d">>}

NoAuth == [kind |-> "none"]
AuthConfig(storage_state) == [kind |-> "config", storage_state |-> storage_state]
AuthMap(storage_state, extra) ==
  [kind |-> "map", storage_state |-> storage_state, extra |-> extra]
ResolvedAuth(storage_state) == [kind |-> "resolved", storage_state |-> storage_state]

AuthStorageStates == {None} \cup {Some(r) : r \in AuthPathInputs}
AuthInputs ==
  {NoAuth}
  \cup {AuthConfig(st) : st \in AuthStorageStates}
  \cup {AuthMap(st, extra) : st \in AuthStorageStates, extra \in {{}, {"profile"}}}

AuthError(msg) == [err |-> Some(Exc(AuthConfigError, msg)), value |-> None]
AuthValue(v) == [err |-> None, value |-> v]

(* the validation pipeline, steps (1)-(6) *)
ValidateStorageState(fsv, raw) ==
  LET path == _canonicalize_output_path(raw)
  IN IF IsBlank(raw) THEN AuthError("must be a non-empty string")
     ELSE IF ~Exists(fsv, path) THEN AuthError("file not found")
     ELSE IF IsDir(fsv, path) THEN AuthError("not a file")
     ELSE IF ~IsReadable(fsv[path]) THEN AuthError("not readable")
     ELSE IF ~Loads(fsv[path].content).ok THEN AuthError("invalid JSON")
     ELSE IF ~IsDict(Loads(fsv[path].content).val) THEN AuthError("must be a JSON object")
     ELSE AuthValue(Some(ResolvedAuth(Some(path))))

(* mutant: an already-resolved value is treated as an empty config *)
resolve_auth_DropsResolved(fsv, auth) ==
  IF auth.kind = "none" THEN AuthValue(None)
  ELSE IF auth.kind = "resolved" THEN AuthValue(None)
  ELSE IF auth.kind = "map" /\ auth.extra # {} THEN AuthError("Unsupported auth fields")
  ELSE IF auth.storage_state = None \/ auth.storage_state = Some(<<>>) THEN AuthValue(None)
  ELSE ValidateStorageState(fsv, auth.storage_state[1])

(* mutant: unsupported keys of a map are ignored *)
resolve_auth_IgnoresKeys(fsv, auth) ==
  IF auth.kind = "none" THEN AuthValue(None)
  ELSE IF auth.kind = "resolved" THEN AuthValue(Some(auth))
  ELSE IF auth.storage_state = None \/ auth.storage_state = Some(<<>>) THEN AuthValue(None)
  ELSE ValidateStorageState(fsv, auth.storage_state[1])

(* mutant: the path is returned as given, not canonicalized *)
resolve_auth_RawPath(fsv, auth) ==
  IF auth.kind = "none" THEN AuthValue(None)
  ELSE IF auth.kind = "resolved" THEN AuthValue(Some(auth))
  ELSE IF auth.kind = "map" /\ auth.extra # {} THEN AuthError("Unsupported auth fields")
  ELSE IF auth.storage_state = None \/ auth.storage_state = Some(<<>>) THEN AuthValue(None)
  ELSE LET r == ValidateStorageState(fsv, auth.storage_state[1])
       IN IF r.err # None THEN r
          ELSE AuthValue(Some(ResolvedAuth(auth.storage_state)))

resolve_auth(fsv, auth) ==
  IF auth.kind = "none" THEN AuthValue(None)
  ELSE IF auth.kind = "resolved" THEN AuthValue(Some(auth))
  ELSE IF auth.kind = "map" /\ auth.extra # {} THEN AuthError("Unsupported auth fields")
  ELSE IF auth.storage_state = None \/ auth.storage_state = Some(<<>>) THEN AuthValue(None)
  ELSE ValidateStorageState(fsv, auth.storage_state[1])

AuthOutcome(r) == IF r.err # None THEN Raised(r.err[1]) ELSE Returned(r.value)

AuthInit ==
  /\ fs \in AuthFsSet
  /\ cli = NoCli
  /\ crawl = NoCrawl
  /\ pc = "idle"
  /\ call = [op |-> "none"]
  /\ output = None
  /\ pw = "none"
  /\ browser = "none"
  /\ remote = <<>>
  /\ page = NoPage
  /\ clock = 0
  /\ started = 0
  /\ flow = NoFlow
  /\ exc = None
  /\ result = NoResult
  /\ sessions = <<>>
  /\ hist = [touched |-> FALSE, launched |-> FALSE, closes |-> 0,
             effects |-> {}, fs0 |-> fs]

(* resolved_auth = resolve_auth(auth), crawl_pages_async line 204 *)
ResolveCall ==
  /\ pc = "idle"
  /\ \E auth \in AuthInputs :
       /\ call' = [op |-> "resolve_auth", auth |-> auth]
       /\ result' = AuthOutcome(resolve_auth(fs, auth))
  /\ pc' = "resolved"
  /\ UNCHANGED <<cli, crawl, fs, output, pw, browser, remote, page, clock, started, flow, exc,
                 sessions, hist>>

(* crawl_page_async(auth=resolved_auth) resolves again, line 115 *)
ResolveAgain ==
  /\ pc = "resolved"
  /\ result.kind = "returned"
  /\ LET first == result.value[1]
         again == resolve_auth(fs, IF first = None THEN NoAuth ELSE first[1])
     IN flow' = [flow EXCEPT !.ret = Some(AuthOutcome(again))]
  /\ pc' = "done"
  /\ UNCHANGED <<cli, crawl, fs, call, output, pw, browser, remote, page, clock, started, exc, result,
                 sessions, hist>>

AuthNext == ResolveCall \/ ResolveAgain

SpecAuth == AuthInit /\ [][AuthNext]_vars

(* C11: resolve_auth(none) is none, and resolving the value a successful   *)
(* resolve_auth returned gives that value again.                           *)
C11_ResolveIdempotent ==
  /\ (call.op = "resolve_auth" /\ call.auth = NoAuth) => result = Returned(None)
  /\ (call.op = "resolve_auth" /\ pc = "done") => flow.ret = Some(result)

C11_Witness ==
  /\ call.op = "resolve_auth" /\ pc = "done"
  /\ call.auth.kind = "map"
  /\ result.kind = "returned"
  /\ result.value[1] = Some(ResolvedAuth(Some(AuthFile)))
  /\ flow.ret = Some(result)

(* C12: resolve_auth raises, and returns nothing, for a missing path, a    *)
(* directory, non-JSON content, a JSON array or scalar and any map with a  *)
(* key other than storage_state; the checks stop at the first failing step *)
(* in the order non-empty string, exists, regular file, readable and       *)
(* parseable, JSON object.                                                 *)
C12_ResolveRejects ==
  (call.op = "resolve_auth" /\ call.auth.kind \in {"config", "map"}) =>
    LET a == call.auth
        unsupported == a.kind = "map" /\ a.extra # {}
        given == a.storage_state # None /\ a.storage_state # Some(<<>>)
        raw == a.storage_state[1]
        path == _canonicalize_output_path(raw)
        node == fs[path]
        expected ==
          IF unsupported THEN "Unsupported auth fields"
          ELSE IF ~given THEN "none"
          ELSE IF IsBlank(raw) THEN "must be a non-empty string"
          ELSE IF node.kind = "absent" THEN "file not found"
          ELSE IF node.kind = "dir" THEN "not a file"
          ELSE IF ~IsReadable(node) THEN "not readable"
          ELSE IF ~Loads(node.content).ok THEN "invalid JSON"
          ELSE IF Loads(node.content).val.t # "obj" THEN "must be a JSON object"
          ELSE "none"
    IN IF expected = "none" THEN result.kind = "returned"
       ELSE /\ result.kind = "raised"
            /\ result.value = None
            /\ result.exc[1].cls = AuthConfigError
            /\ result.exc[1].msg = expected

C12_Witness ==
  /\ call.op = "resolve_auth" /\ pc = "resolved"
  /\ call.auth = AuthMap(Some(<<"~", "out">>), {"profile"})
  /\ fs[AuthFile] = File(OldContent)
  /\ IsRaised(AuthConfigError)
  /\ result.exc[1].msg = "Unsupported auth fields"

(* C13: for a storage-state file that is a regular file holding a JSON     *)
(* object, every input form naming it resolves to the same canonical       *)
(* absolute path, and every ResolvedAuth returned with storage_state set   *)
(* names an existing regular file holding a JSON object.                   *)
NamesAuthFile ==
  {<<"~", "out">>, <<"/", "h", "out">>, <<"..", "h", "out">>,
   <<"/", "h", ".", "d", "..", "out">>}

C13_ResolveCanonical ==
  (call.op = "resolve_auth" /\ call.auth.kind \in {"config", "map"}) =>
    /\ (/\ call.auth.storage_state # None
        /\ call.auth.storage_state[1] \in NamesAuthFile
        /\ (call.auth.kind = "map" => call.auth.extra = {})
        /\ fs[AuthFile].kind = "file" /\ IsReadable(fs[AuthFile])
        /\ Loads(fs[AuthFile].content).ok
        /\ Loads(fs[AuthFile].content).val.t = "obj")
         => result = Returned(Some(ResolvedAuth(Some(AuthFile))))
    /\ (result.kind = "returned" /\ result.value[1] # None) =>
         LET path == result.value[1][1].storage_state[1]
         IN /\ IsAbsolute(path)
            /\ Normalize(Tail(path), Root) = path
            /\ fs[path].kind = "file"
            /\ Loads(fs[path].content).ok
            /\ Loads(fs[path].content).val.t = "obj"

C13_Witness ==
  /\ call.op = "resolve_auth" /\ pc = "resolved"
  /\ call.auth = AuthConfig(Some(<<"..", "h", "out">>))
  /\ result = Returned(Some(ResolvedAuth(Some(AuthFile))))

(***************************************************************************)
(* The capture command line: capture_main and _run_capture_async           *)
(* (src/crawler/cli.py lines 550-688).  The command line calls             *)
(* list_cdp_sessions_async, export_cdp_storage_state_async and             *)
(* capture_session_async, whose steps are the actions above.               *)
(***************************************************************************)
ValueError == "ValueError"
EOFError == "EOFError"
KeyboardInterrupt == "KeyboardInterrupt"

CliSessionIndexes == {-1, 0, 1, 4}
(* a line typed at the prompt: blank, not a number, or a number *)
CliPromptLines ==
  {[kind |-> k, idx |-> 0] : k \in {"blank", "word"}}
  \cup {[kind |-> "number", idx |-> i] : i \in CliSessionIndexes}

CliCdpArgs ==
  [cdp_url : {Some(<<" ">>), Some(<<" ", "c", " ">>)},
   completion_url : {None, Some(<<"d", ".">>)},
   output : {None, Some(<<"out">>)},
   start_url : {None},
   timeout : {MaxClock - 1},
   overwrite : BOOLEAN,
   list_sessions : BOOLEAN,
   cdp_session : {None} \cup {Some(i) : i \in CliSessionIndexes},
   select : BOOLEAN]

CliManualArgs ==
  [cdp_url : {None, Some(<<>>)},
   completion_url : {None, Some(<<"(">>), Some(<<"d", ".">>)},
   output : {None, Some(<<"out">>)},
   start_url : {None, Some(LoginUrl)},
   timeout : {0, MaxClock - 1},
   overwrite : BOOLEAN,
   list_sessions : BOOLEAN,
   cdp_session : {None, Some(0)},
   select : BOOLEAN]

CliArgs == CliCdpArgs \cup CliManualArgs

(* `if x:` on an optional string *)
Truthy(opt) == opt # None /\ opt[1] # <<>>

(* the browsers the command line meets behind the endpoint *)
CliPage == RemotePage(LoginUrl, "ok")
CliListBrowsers ==
  SeqsUpTo({[pages |-> ps, state |-> StateA] :
              ps \in {<<>>, <<CliPage>>, <<CliPage, RemotePage(<<>>, "ok")>>}}, MaxContexts)
CliExportBrowsers ==
  SeqsUpTo({[pages |-> <<CliPage>>, state |-> StateA], [pages |-> <<>>, state |-> StateC]},
           MaxContexts)

CliState(cpc, args) ==
  [pc |-> cpc, args |-> args, sessions |-> <<>>, printed |-> FALSE, selected |-> None,
   err |-> None, status |-> None, exit |-> None]

(* capture_main, lines 679-688: the value of the process *)
(* mutant: an error exits like a timeout *)
capture_main_ErrorIsTwo(err, code) ==
  IF err = None THEN code
  ELSE IF err[1].cls = KeyboardInterrupt THEN 130
  ELSE 2

capture_main(err, code) ==
  IF err = None THEN code
  ELSE IF err[1].cls = KeyboardInterrupt THEN 130
  ELSE 1

(* lines 662-671 *)
StatusExit(status) ==
  IF status = "success" THEN 0
  ELSE IF status = "timeout" THEN 2
  ELSE 130

CliRaise(c, e) == [c EXCEPT !.pc = "exited", !.err = Some(e), !.exit = Some(capture_main(Some(e), 0))]
CliReturn(c, code) == [c EXCEPT !.pc = "exited", !.exit = Some(capture_main(None, code))]

(* lines 594-612 and 644-653: up to the first await *)
_run_capture_async(args) ==
  IF Truthy(args.cdp_url)
  THEN IF Truthy(args.completion_url)
       THEN CliRaise(CliState("start", args),
                     Exc(ValueError, "--completion-url cannot be combined with --cdp-url"))
       ELSE CliState("list", args)
  ELSE IF args.list_sessions \/ args.cdp_session # None \/ args.select
  THEN CliRaise(CliState("start", args),
                Exc(ValueError, "--list-sessions/--cdp-session/--select require --cdp-url"))
  ELSE IF ~Truthy(args.completion_url)
  THEN CliRaise(CliState("start", args), Exc(ValueError, "--completion-url is required"))
  ELSE IF ~Truthy(args.output)
  THEN CliRaise(CliState("start", args), Exc(ValueError, "--output is required"))
  ELSE CliState("capture", args)

CliMain ==
  /\ cli.pc = "none"
  /\ pc = "idle"
  /\ \E args \in CliArgs : cli' = _run_capture_async(args)
  /\ UNCHANGED <<crawl, fs, pc, call, output, pw, browser, remote, page, clock, started,
                 flow, exc, result, sessions, hist>>

(* line 612: sessions = await list_cdp_sessions_async(cdp_url) *)
CliListCall ==
  /\ cli.pc = "list"
  /\ ListCall
  /\ call'.cdp_url = cli.args.cdp_url[1]

CliListConnect ==
  /\ cli.pc = "list"
  /\ remote' \in CliListBrowsers \cup {remote}
  /\ ListConnect

(* _resolve_cdp_session_index, lines 573-590: [kind, idx, err] *)
Resolved(idx) == [kind |-> "index", idx |-> idx, err |-> None]
ResolveFails(e) == [kind |-> "raise", idx |-> 0, err |-> Some(e)]
ResolvePrompts == [kind |-> "prompt", idx |-> 0, err |-> None]

_resolve_cdp_session_index(args, listed) ==
  IF args.cdp_session # None
  THEN IF 0 <= args.cdp_session[1] /\ args.cdp_session[1] < Len(listed)
       THEN Resolved(args.cdp_session[1])
       ELSE ResolveFails(ExcRange(ValueError, "--cdp-session out of range", 0, Len(listed) - 1))
  ELSE IF args.select THEN ResolvePrompts
  ELSE IF Len(listed) = 1 THEN Resolved(0)
  ELSE ResolveFails(Exc(ValueError, "Multiple CDP sessions found"))

(* the state of the callee is gone once its call has returned *)
CallReturns ==
  /\ pc' = "idle"
  /\ call' = [op |-> "none"]
  /\ pw' = "none"
  /\ browser' = "none"
  /\ remote' = <<>>
  /\ flow' = NoFlow
  /\ exc' = None
  /\ result' = NoResult
  /\ sessions' = <<>>
  /\ UNCHANGED <<crawl, fs, output, page, clock, started, hist>>

(* lines 612-629, from the return of the listing to the next await *)
AfterList(c, outcome) ==
  IF outcome.kind = "raised" THEN CliRaise(c, outcome.exc[1])
  ELSE LET listed == outcome.value[1]
           c1 == [c EXCEPT !.sessions = listed, !.printed = c.args.list_sessions]
           r == _resolve_cdp_session_index(c.args, listed)
       IN IF c.args.list_sessions /\ ~Truthy(c.args.output) THEN CliReturn(c1, 0)
          ELSE IF ~Truthy(c.args.output)
          THEN CliRaise(c1, Exc(ValueError, "--output is required when exporting from CDP"))
          ELSE IF listed = <<>>
          THEN CliRaise(c1, Exc(ValueError, "No selectable CDP sessions found"))
          ELSE IF r.kind = "raise" THEN CliRaise(c1, r.err[1])
          ELSE IF r.kind = "prompt" THEN [c1 EXCEPT !.pc = "select"]
          ELSE [c1 EXCEPT !.pc = "export", !.selected = Some(r.idx)]

CliAfterList ==
  /\ cli.pc = "list"
  /\ pc = "done"
  /\ cli' = AfterList(cli, result)
  /\ CallReturns

(* _select_cdp_session_interactive, lines 554-567: one input(); a line     *)
(* that is no index of the list is answered by a message and the prompt    *)
(* is shown again                                                          *)
CliSelectInput ==
  /\ cli.pc = "select"
  /\ \/ \E raw \in CliPromptLines :
          IF raw.kind = "number" /\ 0 <= raw.idx /\ raw.idx < Len(cli.sessions)
          THEN cli' = [cli EXCEPT !.pc = "export", !.selected = Some(raw.idx)]
          ELSE cli' = cli
     \/ cli' = CliRaise(cli, Exc(EOFError, "EOF when reading a line"))
     \/ cli' = CliRaise(cli, Exc(KeyboardInterrupt, ""))
  /\ UNCHANGED <<crawl, fs, pc, call, output, pw, browser, remote, page, clock, started,
                 flow, exc, result, sessions, hist>>

(* lines 629-635 *)
(* mutant: the session index is passed as the context index *)
ExportContextIndex_SessionIndex(listed, selected_index) == selected_index

ExportContextIndex(listed, selected_index) == listed[selected_index + 1].context_index

CliExportCall ==
  /\ cli.pc = "export"
  /\ ExportCall
  /\ call' = [op |-> "export", output_path |-> cli.args.output[1],
              cdp_url |-> cli.args.cdp_url[1],
              context_index |-> ExportContextIndex(cli.sessions, cli.selected[1]),
              overwrite |-> cli.args.overwrite]

CliExportConnect ==
  /\ cli.pc = "export"
  /\ remote' \in CliExportBrowsers \cup {remote}
  /\ ExportConnect

(* lines 636-642 *)
CliAfterExport ==
  /\ cli.pc = "export"
  /\ pc = "done"
  /\ cli' = IF result.kind = "raised" THEN CliRaise(cli, result.exc[1])
            ELSE CliReturn([cli EXCEPT !.status = Some(result.value[1].status)], 0)
  /\ CallReturns

(* lines 653-660 *)
CliCaptureCall ==
  /\ cli.pc = "capture"
  /\ CaptureCall
  /\ call' = [op |-> "capture", output_path |-> cli.args.output[1],
              completion_url_pattern |-> cli.args.completion_url[1],
              start_url |-> cli.args.start_url,
              timeout_seconds |-> cli.args.timeout,
              poll_interval |-> 1,
              overwrite |-> cli.args.overwrite,
              confirm_callback |-> "none"]

(* lines 662-671 *)
CliAfterCapture ==
  /\ cli.pc = "capture"
  /\ pc = "done"
  /\ cli' = IF result.kind = "raised" THEN CliRaise(cli, result.exc[1])
            ELSE CliReturn([cli EXCEPT !.status = Some(result.value[1].status)],
                           StatusExit(result.value[1].status))
  /\ CallReturns

CliNext ==
  \/ CliMain
  \/ CliListCall \/ ListImport \/ ListEnter \/ CliListConnect \/ ListContext \/ ListPage
  \/ ListFinally \/ ListPwExit \/ CliAfterList \/ CliSelectInput
  \/ CliExportCall \/ ExportImport \/ ExportEnter \/ CliExportConnect \/ ExportSelect
  \/ ExportState \/ ExportWrite \/ ExportFinally \/ ExportPwExit \/ CliAfterExport
  \/ CliCaptureCall \/ FlowImport \/ FlowCompile \/ FlowEnter \/ FlowLaunch
  \/ FlowNewContext \/ FlowNewPage \/ FlowGoto
  \/ LoopClosed \/ LoopMatch \/ LoopCapture \/ LoopTimeout \/ LoopSleep
  \/ FlowFinally \/ FlowPwExit \/ CaptureDispatch \/ CliAfterCapture
  \/ UserClosesPage \/ PageNavigates

SpecCli == Init /\ [][CliNext]_vars

(* C14: the command line exits 0 when the capture succeeded, 2 when it     *)
(* timed out and 130 when it was aborted, and every error raised by the    *)
(* capture or the export gives an exit code other than 0, 2 and 130.       *)
C14_ExitCodes ==
  [][(cli.pc \in {"capture", "export"} /\ pc = "done" /\ cli'.pc = "exited") =>
       /\ (result.kind = "returned" /\ result.value[1].status = "success") =>
            cli'.exit = Some(0)
       /\ (result.kind = "returned" /\ result.value[1].status = "timeout") =>
            cli'.exit = Some(2)
       /\ (result.kind = "returned" /\ result.value[1].status = "abort") =>
            cli'.exit = Some(130)
       /\ result.kind = "raised" =>
            (cli'.exit # None /\ cli'.exit[1] \notin {0, 2, 130})]_vars

C14_Witness ==
  /\ cli.pc = "exited"
  /\ cli.args.cdp_url = None
  /\ cli.err # None
  /\ cli.err[1].cls = DriverError
  /\ cli.exit = Some(1)

(* C15: with one listed session and no explicit index and no interactive   *)
(* selection, session 0 is selected; an explicit index is accepted only    *)
(* within 0..len-1; with several sessions and neither an explicit index    *)
(* nor interactive selection the call fails with a message that names the  *)
(* valid index range.                                                      *)
C15_SessionSelection ==
  (cli.pc \in {"select", "export", "exited"} /\ cli.sessions # <<>>
   /\ Truthy(cli.args.output)) =>
    LET n == Len(cli.sessions)
        explicit == cli.args.cdp_session
    IN /\ (n = 1 /\ explicit = None /\ ~cli.args.select) => cli.selected = Some(0)
       /\ explicit # None =>
            IF 0 <= explicit[1] /\ explicit[1] < n
            THEN cli.selected = explicit
            ELSE cli.selected = None /\ cli.err # None /\ cli.exit = Some(1)
       /\ (n > 1 /\ explicit = None /\ ~cli.args.select) =>
            /\ cli.selected = None
            /\ cli.err # None
            /\ cli.err[1].range = <<0, n - 1>>

(* C16: the export is called with the context_index of the listed entry at *)
(* the selected session index; --list-sessions without an output prints    *)
(* the sessions and exits 0 without an export; --list-sessions,            *)
(* --cdp-session and --select without --cdp-url are rejected before any    *)
(* call to the capture or the browser.                                     *)
C16_CdpMode ==
  cli.pc # "none" =>
    /\ call.op = "export" =>
         /\ cli.pc = "export"
         /\ call.context_index = cli.sessions[cli.selected[1] + 1].context_index
    /\ (Truthy(cli.args.cdp_url) /\ cli.args.list_sessions /\ ~Truthy(cli.args.output)) =>
         /\ call.op # "export"
         /\ cli.pc \in {"list", "exited"}
         /\ (cli.pc = "exited" /\ cli.err = None) => (cli.printed /\ cli.exit = Some(0))
         /\ cli.printed => (cli.err = None /\ cli.exit = Some(0))
    /\ (~Truthy(cli.args.cdp_url)
        /\ (cli.args.list_sessions \/ cli.args.cdp_session # None \/ cli.args.select)) =>
         /\ cli.pc = "exited"
         /\ cli.err # None /\ cli.err[1].cls = ValueError
         /\ cli.exit = Some(1)
         /\ call.op = "none" /\ pc = "idle"
         /\ ~hist.touched /\ browser = "none" /\ pw = "none"

C16_Witness ==
  /\ cli.pc = "export"
  /\ call.op = "export"
  /\ pc = "export_select"
  /\ cli.selected = Some(1)
  /\ call.context_index = 0
  /\ Len(cli.sessions) > 2

C20_ClosedPageAborts ==
  [][call.op = "capture" =>
       /\ page.closed => page'.closed
       /\ (pc = "loop_closed" /\ page.closed) =>
            /\ pc' = "flow_finally"
            /\ flow'.ret # None
            /\ flow'.ret[1].status = "abort"
            /\ flow'.ret[1].final_url = None
            /\ flow'.ret[1].storage_state = None
       /\ (flow.ret # None /\ flow.ret[1].status = "abort") =>
            /\ pc' \in {"flow_pw_exit", "capture_dispatch", "done"}
            /\ flow'.ret \in {flow.ret, None}
            /\ fs' = fs
            /\ result'.kind = "returned" =>
                 /\ result'.value[1].status = "abort"
                 /\ result'.value[1].final_url = None]_vars

C20_Witness ==
  /\ call.op = "capture"
  /\ pc = "done"
  /\ page.closed
  /\ result.kind = "returned"
  /\ result.value[1].status = "abort"
  /\ result.value[1].final_url = None
  /\ Search(call.completion_url_pattern, page.url)
  /\ (clock - started) >= call.timeout_seconds

(***************************************************************************)
(* crawl_pages_async (src/crawler/__init__.py lines 183-227): one task per *)
(* URL, each running crawl_page_async under a shared asyncio.Semaphore.    *)
(***************************************************************************)
MaxUrls == 3
MaxConcurrency == 2

CrawlUrls == {LoginUrl, DashUrl}
CrawlUrlLists == SeqsUpTo(CrawlUrls, MaxUrls)
Concurrencies == -1..MaxConcurrency
CrawlAuths == {NoAuth, AuthConfig(Some(<<"out">>)), AuthMap(None, {"profile"})}

(* what one crawl_page_async call does: a document of a successful crawl,  *)
(* a document of an unsuccessful one (builder.py lines 37-48), or raises   *)
CrawlOutcomes == {"success", "unsuccessful", "raises"}

CrawledDocument(request_url, final_url, status, markdown, error_message) ==
  [request_url |-> request_url, final_url |-> final_url, status |-> status,
   markdown |-> markdown, error_message |-> error_message]

(* crawl_one, lines 208-223: the document for one URL *)
crawl_one(urls, i, outcome) ==
  IF outcome = "success"
  THEN CrawledDocument(urls[i], urls[i], "success", "text", None)
  ELSE IF outcome = "unsuccessful"
  THEN CrawledDocument(urls[i], urls[i], "failed", "", Some("HTTP"))
  ELSE CrawledDocument(urls[i], urls[i], "failed", "", Some("boom"))

CrawlState(cpc, urls, concurrency, err) ==
  [pc |-> cpc, urls |-> urls, concurrency |-> concurrency, sem |-> concurrency,
   st |-> [i \in 1..Len(urls) |-> "waiting"],
   outcome |-> [i \in 1..Len(urls) |-> "none"],
   docs |-> [i \in 1..Len(urls) |-> None],
   err |-> err, ret |-> None]

(* lines 203-205 and 226-227: resolve the auth, make the semaphore, start  *)
(* the tasks                                                               *)
CrawlCall ==
  /\ crawl.pc = "none"
  /\ cli.pc = "none"
  /\ pc = "idle"
  /\ \E urls \in CrawlUrlLists, concurrency \in Concurrencies, auth \in CrawlAuths :
       LET r == resolve_auth(fs, auth)
       IN crawl' =
            IF r.err # None THEN CrawlState("raised", urls, concurrency, r.err)
            ELSE IF concurrency < 0
            THEN CrawlState("raised", urls, concurrency,
                            Some(Exc(ValueError, "Semaphore initial value must be >= 0")))
            ELSE CrawlState("gather", urls, concurrency, None)
  /\ UNCHANGED <<cli, fs, pc, call, output, pw, browser, remote, page, clock, started,
                 flow, exc, result, sessions, hist>>

(* asyncio.Semaphore.acquire: a task passes only while the value is positive *)
(* mutant: the semaphore lets every task pass *)
SemaphoreFree_Always(c) == TRUE

SemaphoreFree(c) == c.sem > 0

(* line 209: async with semaphore *)
CrawlAcquire ==
  /\ crawl.pc = "gather"
  /\ \E i \in 1..Len(crawl.urls) :
       /\ crawl.st[i] = "waiting"
       /\ SemaphoreFree(crawl)
       /\ crawl' = [crawl EXCEPT !.st[i] = "running", !.sem = @ - 1]
  /\ UNCHANGED <<cli, fs, pc, call, output, pw, browser, remote, page, clock, started,
                 flow, exc, result, sessions, hist>>

(* lines 210-223: crawl_page_async ends, the semaphore is released *)
CrawlOneEnds ==
  /\ crawl.pc = "gather"
  /\ \E i \in 1..Len(crawl.urls), outcome \in CrawlOutcomes :
       /\ crawl.st[i] = "running"
       /\ crawl' = [crawl EXCEPT !.st[i] = "done", !.sem = @ + 1,
                                 !.outcome[i] = outcome,
                                 !.docs[i] = Some(crawl_one(crawl.urls, i, outcome))]
  /\ UNCHANGED <<cli, fs, pc, call, output, pw, browser, remote, page, clock, started,
                 flow, exc, result, sessions, hist>>

(* line 227: the gather of all the tasks returns their documents in order *)
CrawlGather ==
  /\ crawl.pc = "gather"
  /\ \A i \in 1..Len(crawl.urls) : crawl.st[i] = "done"
  /\ crawl' = [crawl EXCEPT !.pc = "returned",
                            !.ret = Some([i \in 1..Len(crawl.urls) |-> crawl.docs[i][1]])]
  /\ UNCHANGED <<cli, fs, pc, call, output, pw, browser, remote, page, clock, started,
                 flow, exc, result, sessions, hist>>

CrawlNext == CrawlCall \/ CrawlAcquire \/ CrawlOneEnds \/ CrawlGather

SpecCrawl == Init /\ [][CrawlNext]_vars

InFlight == {i \in 1..Len(crawl.urls) : crawl.st[i] = "running"}

(* C18: at most `concurrency` crawl_page_async calls are running at any    *)
(* time; a call that raises gives a failed document for its own URL, at    *)
(* its own position, and the other tasks still run, finish and keep their  *)
(* documents: the batch returns one document per URL and raises only       *)
(* before any task has started.                                            *)
C18_BoundedConcurrency ==
  crawl.pc # "none" =>
    /\ crawl.concurrency >= 0 => Cardinality(InFlight) <= crawl.concurrency
    /\ crawl.concurrency < 0 => InFlight = {}
    /\ crawl.pc = "gather" => crawl.sem + Cardinality(InFlight) = crawl.concurrency
    /\ \A i \in 1..Len(crawl.urls) :
         /\ crawl.st[i] = "done" <=> crawl.docs[i] # None
         /\ crawl.outcome[i] = "raises" =>
              crawl.docs[i] = Some(CrawledDocument(crawl.urls[i], crawl.urls[i], "failed",
                                                   "", Some("boom")))
         /\ crawl.outcome[i] = "success" =>
              /\ crawl.docs[i][1].status = "success"
              /\ crawl.docs[i][1].request_url = crawl.urls[i]
    /\ crawl.pc = "raised" => \A i \in 1..Len(crawl.urls) : crawl.st[i] = "waiting"
    /\ crawl.pc = "returned" =>
         /\ Len(crawl.ret[1]) = Len(crawl.urls)
         /\ \A i \in 1..Len(crawl.urls) : crawl.ret[1][i] = crawl.docs[i][1]

C18_Witness ==
  /\ crawl.pc = "returned"
  /\ Len(crawl.urls) = 3
  /\ crawl.concurrency = 2
  /\ crawl.outcome[1] = "raises"
  /\ crawl.outcome[2] = "success"
  /\ crawl.outcome[3] = "success"
  /\ crawl.ret[1][1].status = "failed"
  /\ crawl.ret[1][2].status = "success"

(***************************************************************************)
(* The legacy capture_auth_state (src/crawler/capture.py lines 45-242),    *)
(* without a profile.  Its `elapsed` is a counter of the sleeps it has     *)
(* asked for, in units of half a second.                                   *)
(***************************************************************************)
LegacyPoll == 1
LegacyGrace == 10
LegacySettle == 4

TimeoutError == "TimeoutError"
AttributeError == "AttributeError"

LegacyTimeouts == {0, 2, 12}
LegacyArgs ==
  [op : {"legacy"}, url : {LoginUrl},
   output_path : {<<"out">>, <<"new", "out">>, <<"out", "x">>, <<"d">>},
   wait_for_url : {None, Some(<<"d", ".">>), Some(<<"(">>)},
   timeout : LegacyTimeouts]

LegacyFlow(elapsed, ended) ==
  [current_url |-> <<>>, ret |-> None, ci |-> 0, pi |-> 0,
   elapsed |-> elapsed, ended |-> ended, state |-> None]

(* lines 76-92 *)
LegacyCall ==
  /\ pc = "idle"
  /\ cli.pc = "none" /\ crawl.pc = "none"
  /\ \E a \in LegacyArgs :
       LET out == _canonicalize_output_path(a.output_path)
           mk == MkdirParents(fs, out)
       IN /\ call' = a
          /\ flow' = LegacyFlow(0, "none")
          /\ \/ /\ result' = Raised(Exc(RuntimeError, "Playwright is required"))
                /\ pc' = "done"
                /\ UNCHANGED <<fs, output>>
             \/ /\ mk.err # None
                /\ result' = Raised(mk.err[1])
                /\ pc' = "done"
                /\ UNCHANGED <<fs, output>>
             \/ /\ mk.err = None
                /\ fs' = mk.fs
                /\ output' = Some(out)
                /\ result' = result
                /\ pc' = "legacy_enter"
  /\ UNCHANGED <<cli, crawl, pw, browser, remote, page, clock, started, exc, sessions, hist>>

(* line 99: async with async_playwright() *)
LegacyEnter ==
  /\ pc = "legacy_enter"
  /\ pw' = "entered"
  /\ pc' = "legacy_launch"
  /\ UNCHANGED <<cli, crawl, fs, call, output, browser, remote, page, clock, started, flow,
                 exc, result, sessions, hist>>

(* lines 117-120: browser = await pw.chromium.launch(...) *)
LegacyLaunch ==
  /\ pc = "legacy_launch"
  /\ \/ /\ browser' = "open"
        /\ hist' = [hist EXCEPT !.touched = TRUE, !.launched = TRUE]
        /\ exc' = exc
        /\ pc' = "legacy_new_page"
     \/ /\ browser' = browser
        /\ hist' = [hist EXCEPT !.touched = TRUE]
        /\ exc' = Some(Exc(DriverError, "launch"))
        /\ pc' = "legacy_pw_exit"
  /\ UNCHANGED <<cli, crawl, fs, call, output, pw, remote, page, clock, started, flow,
                 result, sessions>>

(* lines 121-129: new_context and new_page *)
LegacyNewPage ==
  /\ pc = "legacy_new_page"
  /\ \/ /\ page' = [made |-> TRUE, closed |-> FALSE, url |-> BlankUrl]
        /\ exc' = exc
        /\ pc' = "legacy_goto"
     \/ /\ page' = page
        /\ exc' = Some(Exc(DriverError, "new_page"))
        /\ pc' = "legacy_pw_exit"
  /\ UNCHANGED <<cli, crawl, fs, call, output, pw, browser, remote, clock, started, flow,
                 result, sessions, hist>>

(* line 130: await page.goto(url, wait_until="domcontentloaded") *)
LegacyGoto ==
  /\ pc = "legacy_goto"
  /\ \/ /\ ~page.closed
        /\ page' = [page EXCEPT !.url = call.url]
        /\ exc' = exc
        /\ pc' = "legacy_wait"
     \/ /\ page' = page
        /\ exc' = Some(Exc(DriverError, "goto"))
        /\ pc' = "legacy_pw_exit"
  /\ UNCHANGED <<cli, crawl, fs, call, output, pw, browser, remote, clock, started, flow,
                 result, sessions, hist>>

(* lines 146-163 and 184-187: the start of the wait *)
LegacyWait ==
  /\ pc = "legacy_wait"
  /\ IF call.wait_for_url = None \/ call.wait_for_url = Some(<<>>)
     THEN /\ flow' = [flow EXCEPT !.elapsed = 0]
          /\ exc' = exc
          /\ pc' = "legacy_check"
     ELSE IF ~Compiles(call.wait_for_url[1])
     THEN /\ flow' = flow
          /\ exc' = Some(Exc(RegexError, "pattern"))
          /\ pc' = "legacy_pw_exit"
     ELSE /\ flow' = [flow EXCEPT !.elapsed = 0]
          /\ exc' = exc
          /\ pc' = "legacy_grace"
  /\ UNCHANGED <<cli, crawl, fs, call, output, pw, browser, remote, page, clock, started,
                 result, sessions, hist>>

(* lines 163-164: the grace sleep is over *)
LegacyGraceOver ==
  /\ pc = "legacy_grace"
  /\ flow' = [flow EXCEPT !.elapsed = @ + LegacyGrace]
  /\ pc' = "legacy_check"
  /\ UNCHANGED <<cli, crawl, fs, call, output, pw, browser, remote, page, clock, started,
                 exc, result, sessions, hist>>

(* lines 165-183 and 188-199: one pass of `while elapsed < timeout`, up to  *)
(* its sleep                                                               *)
LegacyCheck ==
  /\ pc = "legacy_check"
  /\ IF ~(flow.elapsed < call.timeout)
     THEN /\ flow' = [flow EXCEPT !.ended = "timeout"]
          /\ pc' = "legacy_export"
     ELSE IF page.closed
     THEN /\ flow' = [flow EXCEPT !.ended = "closed"]
          /\ pc' = "legacy_export"
     ELSE \/ /\ flow' = [flow EXCEPT !.ended = "url_error"]
             /\ pc' = "legacy_export"
          \/ IF call.wait_for_url # None /\ Search(call.wait_for_url[1], page.url)
             THEN /\ flow' = [flow EXCEPT !.current_url = page.url, !.ended = "matched"]
                  /\ pc' = "legacy_settle"
             ELSE /\ flow' = [flow EXCEPT !.current_url = page.url]
                  /\ pc' = "legacy_sleep"
  /\ UNCHANGED <<cli, crawl, fs, call, output, pw, browser, remote, page, clock, started,
                 exc, result, sessions, hist>>

(* lines 182-183 and 198-199: the poll sleep is over *)
LegacySleepOver ==
  /\ pc = "legacy_sleep"
  /\ flow' = [flow EXCEPT !.elapsed = @ + LegacyPoll]
  /\ pc' = "legacy_check"
  /\ UNCHANGED <<cli, crawl, fs, call, output, pw, browser, remote, page, clock, started,
                 exc, result, sessions, hist>>

(* lines 178-180: the settle sleep after a match is over *)
LegacySettleOver ==
  /\ pc = "legacy_settle"
  /\ pc' = "legacy_export"
  /\ UNCHANGED <<cli, crawl, fs, call, output, pw, browser, remote, page, clock, started,
                 flow, exc, result, sessions, hist>>

(* lines 201-202: Ctrl+C during the wait *)
LegacyInterrupt ==
  /\ pc \in {"legacy_grace", "legacy_sleep", "legacy_settle"}
  /\ flow' = [flow EXCEPT !.ended = "interrupt"]
  /\ pc' = "legacy_export"
  /\ UNCHANGED <<cli, crawl, fs, call, output, pw, browser, remote, page, clock, started,
                 exc, result, sessions, hist>>

(* line 207: state = await context.storage_state() *)
LegacyExport ==
  /\ pc = "legacy_export"
  /\ \/ \E st \in {StateA, StateC} :
          /\ flow' = [flow EXCEPT !.state = Some(st)]
          /\ exc' = exc
          /\ pc' = "legacy_write"
     \/ /\ flow' = flow
        /\ exc' = Some(Exc(DriverError, "storage_state"))
        /\ pc' = "legacy_finally"
  /\ UNCHANGED <<cli, crawl, fs, call, output, pw, browser, remote, page, clock, started,
                 result, sessions, hist>>

(* lines 208-212: open(output, "w"), json.dump(state), state.get(...) *)
LegacyDump(fsv, path, state) ==
  IF IsDir(fsv, path)
  THEN [fs |-> fsv, err |-> Some(Exc(OsError, "open")), effects |-> {}]
  ELSE [fs |-> [fsv EXCEPT ![path] = File(Dumps(state))],
        err |-> IF IsDict(state) THEN None
                ELSE Some(Exc(AttributeError, "'list' object has no attribute 'get'")),
        effects |-> {"write"}]

LegacyWrite ==
  /\ pc = "legacy_write"
  /\ LET w == LegacyDump(fs, output[1], flow.state[1])
     IN /\ fs' = w.fs
        /\ hist' = [hist EXCEPT !.effects = @ \cup w.effects]
        /\ exc' = w.err
  /\ pc' = "legacy_finally"
  /\ UNCHANGED <<cli, crawl, call, output, pw, browser, remote, page, clock, started, flow,
                 result, sessions>>

(* lines 233-240: browser.close(), whose exceptions are dropped *)
LegacyFinally ==
  /\ pc = "legacy_finally"
  /\ hist' = [hist EXCEPT !.closes = @ + 1]
  /\ browser' \in {"closed", browser}
  /\ pc' = "legacy_pw_exit"
  /\ UNCHANGED <<cli, crawl, fs, call, output, pw, remote, page, clock, started, flow, exc,
                 result, sessions>>

(* leaving `async with`, line 242: return str(output) *)
LegacyPwExit ==
  /\ pc = "legacy_pw_exit"
  /\ pw' = "exited"
  /\ result' = IF exc # None THEN Raised(exc[1]) ELSE Returned(output[1])
  /\ pc' = "done"
  /\ UNCHANGED <<cli, crawl, fs, call, output, browser, remote, page, clock, started, flow,
                 exc, sessions, hist>>

(* the user and the site, while the legacy capture sleeps *)
LegacyUserClosesPage ==
  /\ pc \in {"legacy_grace", "legacy_sleep", "legacy_settle"}
  /\ ~page.closed
  /\ page' = [page EXCEPT !.closed = TRUE]
  /\ UNCHANGED <<cli, crawl, fs, pc, call, output, pw, browser, remote, clock, started, flow,
                 exc, result, sessions, hist>>

LegacyPageNavigates ==
  /\ pc \in {"legacy_grace", "legacy_sleep", "legacy_settle"}
  /\ ~page.closed
  /\ \E u \in {LoginUrl, DashUrl} :
       /\ u # page.url
       /\ page' = [page EXCEPT !.url = u]
  /\ UNCHANGED <<cli, crawl, fs, pc, call, output, pw, browser, remote, clock, started, flow,
                 exc, result, sessions, hist>>

LegacyNext ==
  \/ LegacyCall \/ LegacyEnter \/ LegacyLaunch \/ LegacyNewPage \/ LegacyGoto
  \/ LegacyWait \/ LegacyGraceOver \/ LegacyCheck \/ LegacySleepOver \/ LegacySettleOver
  \/ LegacyInterrupt \/ LegacyExport \/ LegacyWrite \/ LegacyFinally \/ LegacyPwExit
  \/ LegacyUserClosesPage \/ LegacyPageNavigates

SpecLegacy == Init /\ [][LegacyNext]_vars

(* C19: when the wait of capture_auth_state ends because the timeout is    *)
(* reached, the call raises TimeoutError and has written no storage-state  *)
(* file.                                                                   *)
C19_TimeoutRaises ==
  (call.op = "legacy" /\ pc = "done" /\ flow.ended = "timeout") =>
    /\ IsRaised(TimeoutError)
    /\ "write" \notin hist.effects
    /\ fs[output[1]] = hist.fs0[output[1]]

(***************************************************************************)
(* The interactive capture call alone: capture_session_async with          *)
(* _execute_capture_flow, the user and the site.                           *)
(***************************************************************************)
SpecCapture == Init /\ [][CaptureNext]_vars

(* the flow returned TIMEOUT from the timeout check of this iteration *)
TimedOut == flow.ret # None /\ flow.ret[1].status = "timeout"

(* C21 as stated: the timeout is measured from the moment the polling loop *)
(* begins: the timeout check returns TIMEOUT exactly when the time elapsed *)
(* since the loop began is >= timeout_seconds (time spent in launch,       *)
(* new_context, new_page and goto does not count), with final_url the URL  *)
(* read in that iteration.                                                 *)
C21_TimeoutFromLoopStart ==
  /\ (pc = "flow_finally" /\ TimedOut) =>
       /\ (clock - hist.loop_began) >= call.timeout_seconds
       /\ flow.ret[1].final_url = Some(flow.current_url)
  /\ pc = "loop_sleep" => (clock - hist.loop_began) < call.timeout_seconds

(***************************************************************************)
(* Progress of the capture flow.  The call is one coroutine: the event     *)
(* loop resumes it whenever the await it is suspended in completes, and    *)
(* every await of the model completes (the sleep advances the clock by at  *)
(* least poll_interval, the confirmation returns or raises), so the steps  *)
(* of the call up to the return of _execute_capture_flow are taken under   *)
(* weak fairness.  The user and the site are under no obligation.          *)
(***************************************************************************)
(* capture calls with one output path and one pattern *)
LiveArgs ==
  {a \in CaptureArgs : a.output_path = <<"out">> /\ a.completion_url_pattern = <<"x">>}

LiveCaptureCall ==
  /\ pc = "idle"
  /\ call' \in LiveArgs
  /\ CaptureCall

LiveFlowStep ==
  \/ LiveCaptureCall \/ FlowImport \/ FlowCompile \/ FlowEnter \/ FlowLaunch
  \/ FlowNewContext \/ FlowNewPage \/ FlowGoto
  \/ LoopClosed \/ LoopMatch \/ LoopConfirm \/ LoopCapture \/ LoopTimeout \/ LoopSleep
  \/ FlowFinally \/ FlowPwExit

LiveNext == LiveFlowStep \/ CaptureDispatch \/ UserClosesPage \/ PageNavigates

SpecCaptureLive == Init /\ [][LiveNext]_vars /\ WF_vars(LiveFlowStep)

(* ceil(timeout_seconds / poll_interval) *)
MaxSleeps(a) == (a.timeout_seconds + a.poll_interval - 1) \div a.poll_interval

(* the page stays open, its URL never matches and nothing fails *)
QuietSoFar ==
  call.op = "capture" =>
    /\ ~page.closed
    /\ ~Search(call.completion_url_pattern, page.url)
    /\ exc = None
    /\ result.kind # "raised"

(* _execute_capture_flow has returned or raised, or was never entered *)
FlowEnded == pc \in {"capture_dispatch", "done"}

ReturnedStatus(status) ==
  /\ pc = "done"
  /\ result.kind = "returned"
  /\ result.value[1].status = status

(* C22: the capture flow terminates; it sleeps at most                     *)
(* ceil(timeout_seconds / poll_interval) times; while the page stays open  *)
(* and never matches and nothing fails it ends in TIMEOUT; and a call that *)
(* has ended has either raised or returned one of success, timeout, abort. *)
C22_Terminates ==
  /\ <>FlowEnded
  /\ <>(~QuietSoFar \/ (FlowEnded /\ TimedOut))
  /\ []((call.op = "capture" /\ call.poll_interval > 0) =>
          hist.sleeps <= MaxSleeps(call))
  /\ [](pc = "done" =>
          \/ result.kind = "raised"
          \/ ReturnedStatus("success") \/ ReturnedStatus("timeout") \/ ReturnedStatus("abort"))

C22_Witness ==
  /\ ReturnedStatus("timeout")
  /\ call.timeout_seconds = 2
  /\ hist.sleeps = MaxSleeps(call)
  /\ hist.loop_began = started
  /\ ~page.closed
  /\ fs = hist.fs0

(* C23: a declined confirmation is not remembered.  The step after the URL *)
(* read invokes the confirmation exactly when a callback is given and the  *)
(* URL just read matches, whatever was answered before; the confirmation   *)
(* is entered only from the URL match of an iteration whose closed check   *)
(* found the page open, an iteration is entered only from the start of the *)
(* loop or from the sleep, and a declined confirmation goes on to the      *)
(* timeout check of the same iteration.                                    *)
C23_RepromptEveryTick ==
  [][call.op = "capture" =>
       /\ (pc = "loop_match" /\ pc' # pc) =>
            /\ flow'.current_url = page.url
            /\ pc' = "loop_confirm" <=>
                 (call.confirm_callback # "none" /\ Search(call.completion_url_pattern, page.url))
       /\ (pc' = "loop_confirm" /\ pc # pc') =>
            /\ pc = "loop_match"
            /\ ~page.closed
       /\ (pc' = "loop_match" /\ pc # pc') => (pc = "loop_closed" /\ ~page.closed)
       /\ (pc' = "loop_closed" /\ pc # pc') => pc \in {"flow_goto", "loop_sleep"}
       /\ (pc = "loop_confirm" /\ pc' # pc) =>
            /\ pc' \in {"loop_capture", "loop_timeout", "flow_finally"}
            /\ pc' = "loop_timeout" => (hist'.decision = Some(FALSE) /\ flow' = flow)]_vars

(* the confirmation is invoked again on a later tick, on the same URL *)
C23_Witness ==
  /\ call.op = "capture"
  /\ pc = "loop_confirm"
  /\ hist.decision = Some(FALSE)
  /\ hist.sleeps = 2
  /\ flow.current_url = DashUrl
  /\ page.url = DashUrl

(* C24 as stated: the flow goes on to capture the state only when the      *)
(* confirmation resolves to true, whether the callback returns a boolean,  *)
(* a coroutine or another awaitable such as a future; without a callback   *)
(* every match is confirmed.                                               *)
C24_CaptureOnlyIfConfirmed ==
  [][call.op = "capture" =>
       /\ (pc = "loop_confirm" /\ pc' = "loop_capture") => hist'.decision = Some(TRUE)
       /\ (pc = "loop_confirm" /\ pc' # pc /\ hist'.decision = Some(FALSE)) =>
            pc' = "loop_timeout"
       /\ (pc = "loop_match" /\ pc' # pc /\ call.confirm_callback = "none"
             /\ Search(call.completion_url_pattern, page.url)) => pc' = "loop_capture"]_vars

(***************************************************************************)
(* export_cdp_storage_state_async alone.                                   *)
(***************************************************************************)
SpecExport == Init /\ [][ExportNext]_vars

ExportReturned == call.op = "export" /\ pc = "done" /\ result.kind = "returned"

(* C25: a successful export with context_index i has written the storage  *)
(* state of the i-th context to the canonical absolute output path, as a   *)
(* file that parses back to that JSON object; final_url is the URL of that *)
(* context's first page (none without pages or with an empty URL); the     *)
(* browser was disconnected once; the result is success with that path.    *)
C25_ExportSelectedContext ==
  ExportReturned =>
    LET i == call.context_index
        context == remote[i + 1]
        path == _canonicalize_output_path(call.output_path)
        r == result.value[1]
    IN /\ i \in 0..(Len(remote) - 1)
       /\ IsAbsolute(path)
       /\ r.status = "success"
       /\ r.storage_state_path = Some(path)
       /\ r.final_url = IF context.pages = <<>> \/ context.pages[1].url = <<>>
                        THEN None ELSE Some(context.pages[1].url)
       /\ fs[path] = File(Dumps(context.state))
       /\ IsDict(context.state)
       /\ Loads(fs[path].content).ok
       /\ Loads(fs[path].content).val = context.state
       /\ browser = "closed"
       /\ hist.closes = 1
       /\ pw = "exited"

C25_Witness ==
  /\ ExportReturned
  /\ call.context_index = 1
  /\ remote[1].state # remote[2].state
  /\ remote[1].pages # <<>>
  /\ Len(remote[2].pages) = 2
  /\ result.value[1].final_url = Some(LoginUrl)
  /\ fs # hist.fs0

(***************************************************************************)
(* list_cdp_sessions_async alone.                                          *)
(***************************************************************************)
SpecList == Init /\ [][ListNext]_vars

(* the entry of page m (from 0) of context c (from 1) in a full listing *)
EntryOf(es, c, m) ==
  es[CHOOSE i \in 1..Len(es) :
       es[i].context_index = c - 1 /\ es[i].page_index = Some(m)]

(* C26: no exception is in flight while the pages are enumerated, whatever *)
(* their title lookups do; a returned listing has an entry for every page, *)
(* with title none exactly where the lookup failed; after a successful     *)
(* connect browser.close() has run once when the call ends, and the call   *)
(* raises only when that close failed; a failed connect raises with        *)
(* nothing listed and nothing to close.                                    *)
C26_ListBestEffort ==
  call.op = "list" =>
    /\ pc \in {"list_context", "list_page", "list_finally"} =>
         /\ exc = None
         /\ hist.launched /\ browser = "open"
    /\ (pc = "done" /\ result.kind = "returned") =>
         LET es == result.value[1]
         IN /\ Len(es) = ExpectedCount(remote)
            /\ \A c \in 1..Len(remote) : \A m \in 0..(Len(remote[c].pages) - 1) :
                 LET p == remote[c].pages[m + 1]
                     e == EntryOf(es, c, m)
                 IN /\ e.url = p.url
                    /\ e.title = IF p.title = "raises" THEN None ELSE Some(p.title)
    /\ (pc = "done" /\ hist.launched) =>
         /\ hist.closes = 1
         /\ sessions # <<>> \/ remote = <<>>
         /\ \/ result.kind = "returned" /\ browser = "closed"
            \/ IsRaised(DriverError) /\ result.exc[1].msg = "close"
    /\ (pc = "done" /\ hist.touched /\ ~hist.launched) =>
         /\ IsRaised(RuntimeError)
         /\ result.exc[1].msg = "Failed to connect to CDP endpoint"
         /\ sessions = <<>>
         /\ hist.closes = 0
         /\ browser = "none"

C26_Witness ==
  /\ call.op = "list" /\ pc = "done" /\ result.kind = "returned"
  /\ Len(remote) = 2
  /\ Len(remote[1].pages) = 2
  /\ remote[1].pages[1].title = "raises"
  /\ remote[1].pages[2].title = "ok"
  /\ remote[2].pages # <<>>
  /\ Len(result.value[1]) = ExpectedCount(remote)
  /\ result.value[1][1].title = None
  /\ browser = "closed"

(* browser.close() of the capture flow was awaited and raised *)
CloseFailed == call.op = "capture" /\ hist.closes >= 1 /\ browser # "closed"

(* C27: when browser.close() raises in the capture flow, its error is in   *)
(* flight in place of the flow's return value, the call raises it and      *)
(* returns no result, and nothing is written, also when the storage state  *)
(* had been captured.                                                      *)
C27_CloseFailurePropagates ==
  CloseFailed =>
    /\ pc \in {"flow_pw_exit", "done"}
    /\ exc = Some(Exc(DriverError, "close"))
    /\ flow.ret = None
    /\ fs = hist.fs0
    /\ hist.effects = {}
    /\ pc = "done" => (result.kind = "raised" /\ result.exc[1] = Exc(DriverError, "close"))

C27_Witness ==
  /\ CloseFailed
  /\ pc = "done"
  /\ hist.captured
  /\ IsRaised(DriverError)
  /\ ~Exists(fs, output[1])

(* monotonic() - started has reached timeout_seconds *)
Elapsed == (clock - started) >= call.timeout_seconds

(* C28: in an iteration the URL match comes before the timeout check.  A   *)
(* matching URL goes to the confirmation or the capture whatever time has  *)
(* elapsed, and a captured state returns success; the timeout check is     *)
(* entered only from a URL that does not match or from a declined          *)
(* confirmation of the same iteration, and TIMEOUT is returned only by the *)
(* timeout check, which returns it at once when the time has elapsed.      *)
C28_MatchBeforeTimeout ==
  [][call.op = "capture" =>
       /\ (pc = "loop_match" /\ pc' # pc /\ Search(call.completion_url_pattern, page.url)) =>
            pc' \in {"loop_confirm", "loop_capture"}
       /\ (pc = "loop_capture" /\ pc' # pc /\ exc' = None) =>
            /\ flow'.ret # None
            /\ flow'.ret[1].status = "success"
            /\ flow'.ret[1].final_url = Some(flow.current_url)
       /\ (pc' = "loop_timeout" /\ pc # pc') =>
            \/ pc = "loop_match" /\ ~Search(call.completion_url_pattern, page.url)
            \/ pc = "loop_confirm" /\ hist'.decision = Some(FALSE)
       /\ (TimedOut' /\ ~TimedOut) => (pc = "loop_timeout" /\ Elapsed)
       /\ (pc = "loop_timeout" /\ pc' # pc /\ Elapsed) =>
            (TimedOut' /\ pc' = "flow_finally" /\ clock' = clock)]_vars

(* success returned on a tick on which the timeout had elapsed *)
C28_Witness ==
  /\ ReturnedStatus("success")
  /\ call.op = "capture"
  /\ Elapsed
  /\ hist.sleeps >= 1
  /\ hist.decision = Some(TRUE)

(***************************************************************************)
(* Two calls with the same output path in one event loop.  The second call *)
(* is seen through its one effect on the shared file system: while this    *)
(* call is suspended in an await between its pre-flight check and its      *)
(* write, the other call, whose own pre-flight check also found the target *)
(* absent, writes its storage state to the target.                         *)
(***************************************************************************)
OtherCallWrites ==
  /\ call.op = "capture"
  /\ pc \in {"flow_launch", "flow_new_context", "flow_new_page"} \/ Suspended
  /\ output # None
  /\ ~Exists(fs, output[1])
  /\ LET w == _write_storage_state(fs, output[1], StateA)
     IN /\ w.err = None
        /\ fs' = w.fs
  /\ UNCHANGED <<cli, crawl, pc, call, output, pw, browser, remote, page, clock, started, flow, exc,
                 result, sessions, hist>>

RaceNext == LiveNext \/ OtherCallWrites

SpecRace == Init /\ [][RaceNext]_vars

(* C29 as stated: with overwrite=false the write of capture_session_async  *)
(* leaves a file that exists at the output path at the time of the write   *)
(* as it is, also when the file was created after the pre-flight check.    *)
C29_NoReplaceWithoutOverwrite ==
  [][(call.op = "capture" /\ pc = "capture_dispatch" /\ ~call.overwrite
        /\ Exists(fs, output[1])) =>
       fs'[output[1]] = fs[output[1]]]_vars

(* C30 as stated: whenever export_cdp_storage_state_async raises, the      *)
(* output path is as it was before the call, also when the state was       *)
(* written and the disconnect that follows failed.                         *)
C30_ExportRaiseLeavesTarget ==
  (call.op = "export" /\ pc = "done" /\ result.kind = "raised" /\ output # None) =>
    fs[output[1]] = hist.fs0[output[1]]

====
